---- MODULE Spec2Model ----
(***************************************************************************)
(* win-gui-inspector: the depth-bounded, failure-tolerant walk over an     *)
(* accessibility tree (UIInspector.scan_element, the nested tree; and      *)
(* WindowMapper.map_window_elements, the flat list), the search over a     *)
(* scanned tree (find_elements_by_type) and the window filter              *)
(* (WindowMapper.find_windows).                                            *)
(*                                                                         *)
(* The accessibility platform is external.  It is modelled as a set of     *)
(* element handles, each a mock element as the tests build them            *)
(* (tests/conftest.py make_mock_element): metadata, a rectangle, a list of *)
(* child handles, a legacy value, a toggle state, and the reads that       *)
(* raise.  Environment actions change the platform before an operation of  *)
(* the program runs.                                                       *)
(*                                                                         *)
(* Python values: a dict is a record, a list a sequence, {} and [] the     *)
(* empty function <<>>, None the value None below.  A call either returns  *)
(* a value or raises: Return(v) and Raise(msg).                            *)
(***************************************************************************)
EXTENDS Integers, Sequences, FiniteSets, TLC

\* ------------------------------------------------------------------ bounds

\* Attribute changes the environment makes to the base world.
MaxEdits == 2
\* Reads the environment makes raise.
MaxFaults == 2
\* max_depth is drawn from 0..MaxDepth.
MaxDepth == 2
\* Top-level windows the desktop enumerates.
MaxWindows == 2
\* Calls of scan_current_screen, or of connect, in a behaviour.
MaxScans == 3

\* --------------------------------------------------------- python values

None == <<>>
EmptyDict == <<>>
\* Python None in a text attribute (info.name may be None).
NoneText == "<None>"

Return(v) == [raised |-> FALSE, value |-> v]
Raise(msg) == [raised |-> TRUE, exc |-> msg]

\* bool(d) of a dict: an empty dict is falsy.
Truthy(d) == DOMAIN d # {}

\* `x or ""` on a text attribute.
OrEmpty(x) == IF x = NoneText \/ x = "" THEN "" ELSE x

Min(a, b) == IF a <= b THEN a ELSE b

\* ------------------------------------------------------------- platform

Nodes == 1 .. 5
Root == 1
NoRaise == -1

Names == {"", "Buy", NoneText}
AutomationIds == {"", "116"}
ControlTypes == {"", "Pane", "Button", "Edit", "CheckBox"}
Reads == {"element_info", "rectangle", "legacy_properties", "get_toggle_state"}

VARIABLES
  elem,         \* handle -> mock element (the platform's state)
  max_depth,    \* UIInspector.max_depth / WindowMapper.max_depth
  edits,        \* attribute changes made so far
  faults,       \* raising reads introduced so far
  pc,           \* "idle" before an operation, then the operation that ran
  scanned,      \* outcome of UIInspector.scan_element(root)
  query,        \* control type asked of find_elements_by_type
  found,        \* outcome of find_elements_by_type(scanned, query)
  mapped,       \* outcome of WindowMapper.map_window_elements(root)
  desktop,      \* the top-level windows, in the platform's enumeration order
  enum_raises,  \* the enumerations that raise: "filtered", "all"
  title_pattern,\* WindowMapper.title_pattern
  windows_info, \* outcome of WindowMapper.find_windows()
  stack,        \* the frames of the walk in progress, the root's call first
  collected,    \* the list `elements` of the map_window_elements call in progress
  inspector_window, \* UIInspector.window
  inspector_elements, \* UIInspector.elements: screen name -> scanned tree
  last_scan,    \* interactive_mode: the result of the session's latest scan
  scan_world,   \* history: screen name -> the platform as its latest scan met it
  clock,        \* datetime.now()
  dirs,         \* the directories that exist
  files,        \* path -> text of the files that exist
  unwritable,   \* the paths at which creating or writing raises OSError
  op,           \* the operation that ran last
  arg,          \* its argument
  returned,     \* what it returned or raised
  calls,        \* the methods a command called, in order
  exit_status   \* the status the process ended with, NotRun while it runs

platform_vars == <<elem, desktop, enum_raises>>
vars == <<elem, max_depth, edits, faults, pc, scanned, query, found, mapped,
          desktop, enum_raises, title_pattern, windows_info, stack, collected,
          inspector_window, inspector_elements, last_scan, scan_world, clock, dirs, files,
          unwritable,
          op, arg, returned, calls, exit_status>>
session_vars == <<inspector_window, inspector_elements, last_scan, scan_world, clock>>
fs_vars == <<dirs, files, unwritable>>
cli_vars == <<op, arg, returned, calls, exit_status>>

\* make_mock_element(name, control_type, automation_id, class_name, children,
\* rect, value, toggle_state): nothing raises but get_toggle_state on an element
\* built without a toggle state.
make_mock_element(name, control_type, automation_id, class_name, children, rect, value, toggle_state) ==
  [ name |-> name, control_type |-> control_type,
    automation_id |-> automation_id, class_name |-> class_name,
    children |-> children,
    rect |-> [left |-> rect[1], top |-> rect[2], width |-> rect[3], height |-> rect[4]],
    value |-> value,
    toggle_state |-> IF toggle_state = None THEN 0 ELSE toggle_state[1],
    raises |-> IF toggle_state = None THEN {"get_toggle_state"} ELSE {},
    children_raise_at |-> NoRaise ]

\* The child lists of the base worlds.
ShapeBush   == <<  <<2, 3, 4>>, <<>>,    <<5>>,    <<>>,   <<>>  >>
ShapeChain  == <<  <<2>>,       <<3>>,   <<4>>,    <<5>>,  <<>>  >>
\* 2 lists the root and itself, 3 lists itself: the children relation is cyclic.
ShapeCycle  == <<  <<2, 3>>,    <<1, 2>>, <<3, 4>>, <<5>>, <<>>  >>
\* 4 is a child of both 2 and 3.
ShapeShared == <<  <<2, 3>>,    <<4>>,   <<4>>,    <<5>>,  <<>>  >>
Shapes == {ShapeBush, ShapeChain, ShapeCycle, ShapeShared}

\* The elements of the tests' mock window (conftest.py mock_window), over a shape.
mock_window(shape) ==
  [h \in Nodes |->
     CASE h = 1 -> make_mock_element("Main", "Window", "", "TestClass", shape[1],
                                     <<0, 0, 800, 600>>, "", None)
       [] h = 2 -> make_mock_element("Buy", "Button", "116", "", shape[2],
                                     <<0, 0, 100, 50>>, "", None)
       [] h = 3 -> make_mock_element("", "Pane", "", "", shape[3],
                                     <<0, 0, 100, 50>>, "", None)
       [] h = 4 -> make_mock_element("Symbol", "Edit", "102", "", shape[4],
                                     <<0, 0, 100, 50>>, "7203", None)
       [] h = 5 -> make_mock_element("Skip", "CheckBox", "", "", shape[5],
                                     <<0, 0, 100, 50>>, "", <<1>>) ]

\* The message of the exception a failing read of element h raises.
ExcMsg(h) == "stale element " \o ToString(h)

\* The operators below read the platform W (a function from handles to mock
\* elements); the program's operations are applied to the variable elem.

\* element.element_info and its four attributes, read as a unit.
element_info(W, h) ==
  IF "element_info" \in W[h].raises THEN Raise(ExcMsg(h))
  ELSE Return([name |-> W[h].name, control_type |-> W[h].control_type,
               automation_id |-> W[h].automation_id,
               class_name |-> W[h].class_name])

\* element.rectangle()
rectangle(W, h) ==
  IF "rectangle" \in W[h].raises THEN Raise(ExcMsg(h))
  ELSE Return(W[h].rect)

\* `for child in element.children()`: the children the iteration yields before
\* it ends or raises (children_raise_at = 0: the call itself raises).
children_yielded(W, h) ==
  IF W[h].children_raise_at = NoRaise THEN W[h].children
  ELSE SubSeq(W[h].children, 1, Min(W[h].children_raise_at, Len(W[h].children)))

children_raises(W, h) == W[h].children_raise_at # NoRaise

\* element.legacy_properties().get("Value", "")
legacy_value(W, h) ==
  IF "legacy_properties" \in W[h].raises THEN Raise(ExcMsg(h))
  ELSE Return(W[h].value)

\* element.get_toggle_state()
get_toggle_state(W, h) ==
  IF "get_toggle_state" \in W[h].raises THEN Raise(ExcMsg(h))
  ELSE Return(W[h].toggle_state)

\* ------------------------------------------ UIInspector.scan_element (tree)

\* Mutant: there is no depth check.
depth_unchecked(depth) == FALSE

\* Mutant: the cutoff is off by one.
depth_exceeded_late(depth) == depth > max_depth + 1

\* `if depth > self.max_depth`
depth_exceeded(depth) == depth > max_depth

\* Mutant: the name is preferred to the automation id.
path_segment_name_first(automation_id, name, control_type) ==
  IF name # "" THEN name
  ELSE IF automation_id # "" THEN automation_id
  ELSE control_type

\* `automation_id or name or control_type`
path_segment(automation_id, name, control_type) ==
  IF automation_id # "" THEN automation_id
  ELSE IF name # "" THEN name
  ELSE control_type

\* `f"{parent_path}/{path_segment}" if parent_path else path_segment`
current_path(parent_path, segment) ==
  IF parent_path # "" THEN parent_path \o "/" \o segment ELSE segment

\* The inner try around element.rectangle(): None when the read raises.
rect_info(W, element) ==
  LET rect == rectangle(W, element)
  IN  IF rect.raised THEN None
      ELSE [left |-> rect.value.left, top |-> rect.value.top,
            width |-> rect.value.width, height |-> rect.value.height]

\* Mutant: a child that could not be read is left out of the list.
keep_child_unless_error(child_info) ==
  Truthy(child_info) /\ "error" \notin DOMAIN child_info

\* `if child_info:` a child's result is appended unless it is the empty dict.
keep_child(child_info) == Truthy(child_info)

\* `except Exception as e: return {"error": str(e), "depth": depth}`
error_node(exc, depth) == [error |-> exc, depth |-> depth]

\* Mutant: the children collected before the exception are dropped.
children_after_loop_reset(loop) == IF loop.raised THEN <<>> ELSE loop.children

\* `except Exception: pass` around the loop over the children: the children
\* appended before the exception stay in result["children"].
children_after_loop(loop) == loop.children

RECURSIVE scan_element(_, _, _, _)
RECURSIVE scan_try(_, _, _, _)
RECURSIVE scan_children(_, _, _, _, _, _)

\* The loop `for child in element.children()` from its i-th iteration on, with
\* acc the list result["children"] so far: the list at the loop's end and
\* whether the loop ended by an exception.
scan_children(W, element, depth, path, i, acc) ==
  IF i > Len(children_yielded(W, element))
  THEN [children |-> acc, raised |-> children_raises(W, element)]
  ELSE LET child_info == scan_element(W, children_yielded(W, element)[i], depth + 1, path)
       IN  IF child_info.raised THEN [children |-> acc, raised |-> TRUE]
           ELSE scan_children(W, element, depth, path, i + 1,
                              IF keep_child(child_info.value)
                              THEN Append(acc, child_info.value) ELSE acc)

\* The body of scan_element's outer try.
scan_try(W, element, depth, parent_path) ==
  LET info == element_info(W, element)
  IN  IF info.raised THEN info
      ELSE LET name == OrEmpty(info.value.name)
               control_type == OrEmpty(info.value.control_type)
               automation_id == OrEmpty(info.value.automation_id)
               class_name == OrEmpty(info.value.class_name)
               path == current_path(parent_path,
                                    path_segment(automation_id, name, control_type))
               loop == scan_children(W, element, depth, path, 1, <<>>)
           IN  Return([name |-> name, control_type |-> control_type,
                       automation_id |-> automation_id, class_name |-> class_name,
                       path |-> path, depth |-> depth,
                       rectangle |-> rect_info(W, element),
                       children |-> children_after_loop(loop)])

\* Mutant: the outer try has no except clause.
scan_element_no_except(W, element, depth, parent_path) ==
  IF depth_exceeded(depth) THEN Return(EmptyDict)
  ELSE scan_try(W, element, depth, parent_path)

scan_element(W, element, depth, parent_path) ==
  IF depth_exceeded(depth) THEN Return(EmptyDict)
  ELSE LET body == scan_try(W, element, depth, parent_path)
       IN  IF body.raised THEN Return(error_node(body.exc, depth)) ELSE body

\* ------------------------------------- UIInspector.find_elements_by_type

\* element.get(key, default)
Get(element, key, default) == IF key \in DOMAIN element THEN element[key] ELSE default

\* `element.get("control_type") == control_type`
has_control_type(element, control_type) ==
  "control_type" \in DOMAIN element /\ element.control_type = control_type

\* The record appended for a matching element.
projection(element) ==
  [name |-> Get(element, "name", ""),
   automation_id |-> Get(element, "automation_id", ""),
   path |-> Get(element, "path", ""),
   rectangle |-> Get(element, "rectangle", None)]

RECURSIVE find_elements_by_type(_, _, _)
RECURSIVE find_in_children(_, _, _, _)

\* Mutant: the search does not look below a node that matches.
find_elements_by_type_stop_at_match(element, control_type, results) ==
  IF has_control_type(element, control_type)
  THEN Append(results, projection(element))
  ELSE find_in_children(Get(element, "children", <<>>), control_type, 1, results)

\* `for child in element.get("children", [])` from the i-th child on.
find_in_children(children, control_type, i, results) ==
  IF i > Len(children) THEN results
  ELSE find_in_children(children, control_type, i + 1,
                        find_elements_by_type(children[i], control_type, results))

find_elements_by_type(element, control_type, results) ==
  find_in_children(Get(element, "children", <<>>), control_type, 1,
                   IF has_control_type(element, control_type)
                   THEN Append(results, projection(element)) ELSE results)

\* ------------------------------------ WindowMapper.map_window_elements (flat)

useful_types ==
  {"Button", "Edit", "CheckBox", "ComboBox", "List", "ListItem", "DataGrid",
   "DataItem", "Tab", "TabItem", "RadioButton", "Text", "Table", "TreeItem",
   "MenuItem"}

\* `if depth > self.max_depth` of the nested scan_element.
map_depth_exceeded(depth) == depth > max_depth

\* `value = ""`, then for an Edit the legacy value unless the read raises
\* (contextlib.suppress).
edit_value(W, element, ctrl_type) ==
  IF ctrl_type = "Edit"
  THEN LET read == legacy_value(W, element)
       IN  IF read.raised THEN "" ELSE read.value
  ELSE ""

\* Mutant: a toggle state of 0 is taken for no state.
checkbox_state_nonzero(W, element, ctrl_type) ==
  IF ctrl_type = "CheckBox"
  THEN LET read == get_toggle_state(W, element)
       IN  IF read.raised \/ read.value = 0 THEN None ELSE <<read.value>>
  ELSE None

\* `checked = None`, then for a CheckBox the toggle state unless the read
\* raises.  None is <<>> and a state s is <<s>>.
checkbox_state(W, element, ctrl_type) ==
  IF ctrl_type = "CheckBox"
  THEN LET read == get_toggle_state(W, element)
       IN  IF read.raised THEN None ELSE <<read.value>>
  ELSE None

\* element_info with `value` set `if value` and `checked` set
\* `if checked is not None`.
flat_record(depth, ctrl_type, auto_id, name, class_name, value, checked) ==
  CASE value # "" /\ checked # None ->
         [depth |-> depth, type |-> ctrl_type, id |-> auto_id, name |-> name,
          class |-> class_name, value |-> value, checked |-> checked[1]]
    [] value # "" /\ checked = None ->
         [depth |-> depth, type |-> ctrl_type, id |-> auto_id, name |-> name,
          class |-> class_name, value |-> value]
    [] value = "" /\ checked # None ->
         [depth |-> depth, type |-> ctrl_type, id |-> auto_id, name |-> name,
          class |-> class_name, checked |-> checked[1]]
    [] OTHER ->
         [depth |-> depth, type |-> ctrl_type, id |-> auto_id, name |-> name,
          class |-> class_name]

\* Mutant: an element without an automation id is left out.
is_useful_needs_id(ctrl_type, auto_id, name) ==
  ctrl_type \in useful_types /\ auto_id # ""

\* `if ctrl_type in useful_types and (auto_id or name)`
is_useful(ctrl_type, auto_id, name) ==
  ctrl_type \in useful_types /\ (auto_id # "" \/ name # "")

\* `except Exception: pass`: what was appended to `elements` before the
\* exception stays.
elements_after_try(body) == body.elements

RECURSIVE map_scan_element(_, _, _, _)
RECURSIVE map_try(_, _, _, _)
RECURSIVE map_children(_, _, _, _, _)

\* Mutant: the walk descends only below the elements it includes.
map_try_descend_if_useful(W, element, depth, elements) ==
  LET info == element_info(W, element)
  IN  IF info.raised THEN [elements |-> elements, raised |-> TRUE]
      ELSE LET name == OrEmpty(info.value.name)
               ctrl_type == OrEmpty(info.value.control_type)
               auto_id == OrEmpty(info.value.automation_id)
               class_name == OrEmpty(info.value.class_name)
               record == flat_record(depth, ctrl_type, auto_id, name, class_name,
                                     edit_value(W, element, ctrl_type),
                                     checkbox_state(W, element, ctrl_type))
           IN  IF is_useful(ctrl_type, auto_id, name)
               THEN map_children(W, element, depth, 1, Append(elements, record))
               ELSE [elements |-> elements, raised |-> FALSE]

\* Mutant: an exception of a child's metadata read is not caught in the
\* child's call and ends the parent's loop.
map_children_propagates(W, element, depth, i, elements) ==
  IF i > Len(children_yielded(W, element))
  THEN [elements |-> elements, raised |-> children_raises(W, element)]
  ELSE IF ~map_depth_exceeded(depth + 1)
          /\ element_info(W, children_yielded(W, element)[i]).raised
       THEN [elements |-> elements, raised |-> TRUE]
       ELSE LET child == map_scan_element(W, children_yielded(W, element)[i], depth + 1,
                                          elements)
            IN  map_children(W, element, depth, i + 1, child.value)

\* The loop `for child in elem.children()` from its i-th iteration on:
\* `elements` at the loop's end and whether it ended by an exception.
map_children(W, element, depth, i, elements) ==
  IF i > Len(children_yielded(W, element))
  THEN [elements |-> elements, raised |-> children_raises(W, element)]
  ELSE LET child == map_scan_element(W, children_yielded(W, element)[i], depth + 1, elements)
       IN  IF child.raised THEN [elements |-> elements, raised |-> TRUE]
           ELSE map_children(W, element, depth, i + 1, child.value)

\* The body of the nested scan_element's try: `elements` when it ends and
\* whether it ended by an exception.
map_try(W, element, depth, elements) ==
  LET info == element_info(W, element)
  IN  IF info.raised THEN [elements |-> elements, raised |-> TRUE]
      ELSE LET name == OrEmpty(info.value.name)
               ctrl_type == OrEmpty(info.value.control_type)
               auto_id == OrEmpty(info.value.automation_id)
               class_name == OrEmpty(info.value.class_name)
               record == flat_record(depth, ctrl_type, auto_id, name, class_name,
                                     edit_value(W, element, ctrl_type),
                                     checkbox_state(W, element, ctrl_type))
           IN  map_children(W, element, depth, 1,
                            IF is_useful(ctrl_type, auto_id, name)
                            THEN Append(elements, record) ELSE elements)

\* The nested scan_element(elem, depth): returns None, its effect is on the
\* enclosing list `elements`, which is the value returned here.
map_scan_element(W, element, depth, elements) ==
  IF map_depth_exceeded(depth) THEN Return(elements)
  ELSE Return(elements_after_try(map_try(W, element, depth, elements)))

map_window_elements(W, window) == map_scan_element(W, window, 0, <<>>)

\* ---------------------------------------------- WindowMapper.find_windows

\* The titles and sizes of the windows the desktop may hold.
Titles == {"", "Main", "Orders"}
Sizes == {<<800, 600>>, <<50, 50>>, <<100, 100>>, <<101, 100>>, <<100, 101>>, <<101, 101>>}
WindowReads == {"window_text", "rectangle"}
Patterns == {"", "Order.*"}

\* The platform's title_re match of a window title (re.match).
title_re_matches(pattern, title) == pattern = "Order.*" /\ title = "Orders"

\* A top-level window: make_mock_element(name=title, rect=(0, 0, w, h)); its
\* handle is the place it took when it was opened.
mock_top_window(title, size, raises, handle) ==
  [title |-> title, width |-> size[1], height |-> size[2], raises |-> raises,
   handle |-> handle]

\* Seq filter, in order.
RECURSIVE SelectWindows(_, _)
SelectWindows(ws, pattern) ==
  IF ws = <<>> THEN <<>>
  ELSE (IF title_re_matches(pattern, Head(ws).title) THEN <<Head(ws)>> ELSE <<>>)
       \o SelectWindows(Tail(ws), pattern)

\* desktop.windows()
desktop_windows(D, R) ==
  IF "all" \in R THEN Raise("windows() failed") ELSE Return(D)

\* desktop.windows(title_re=pattern)
desktop_windows_title_re(D, R, pattern) ==
  IF "filtered" \in R THEN Raise("windows(title_re) failed")
  ELSE Return(SelectWindows(D, pattern))

\* Mutant: the fallback enumeration is filtered by the pattern as well.
all_windows_fallback_filtered(D, R, pattern) ==
  LET first == IF pattern # "" THEN desktop_windows_title_re(D, R, pattern)
               ELSE desktop_windows(D, R)
      again == desktop_windows(D, R)
  IN  IF ~first.raised THEN first
      ELSE IF again.raised THEN again
      ELSE Return(SelectWindows(again.value, pattern))

\* The try/except that sets all_windows: the filtered enumeration when a
\* pattern is set, and desktop.windows() when there is none or when the
\* first call raises (the call in the except clause is not guarded).
all_windows(D, R, pattern) ==
  LET first == IF pattern # "" THEN desktop_windows_title_re(D, R, pattern)
               ELSE desktop_windows(D, R)
  IN  IF first.raised THEN desktop_windows(D, R) ELSE first

\* Mutant: a window of exactly 100 by 100 is kept.
big_enough_inclusive(width, height) == width >= 100 /\ height >= 100

\* `if width > 100 and height > 100`
big_enough(width, height) == width > 100 /\ height > 100

\* One iteration of `for win in all_windows`: the entries it appends, none
\* when the title is empty, a read raises or the window is too small.
window_entry(win) ==
  IF "window_text" \in win.raises THEN <<>>
  ELSE IF win.title = "" THEN <<>>
  ELSE IF "rectangle" \in win.raises THEN <<>>
  ELSE IF big_enough(win.width, win.height)
       THEN << [title |-> win.title, handle |-> win.handle,
                width |-> win.width, height |-> win.height] >>
       ELSE <<>>

RECURSIVE collect_windows(_, _)
collect_windows(ws, windows_info_acc) ==
  IF ws = <<>> THEN windows_info_acc
  ELSE collect_windows(Tail(ws), windows_info_acc \o window_entry(Head(ws)))

find_windows(D, R, pattern) ==
  LET ws == all_windows(D, R, pattern)
  IN  IF ws.raised THEN ws ELSE Return(collect_windows(ws.value, <<>>))

\* ----------------------------------------------- UIInspector: the screens

\* d[key] = value on a dict.
Put(d, key, value) ==
  [k \in DOMAIN d \cup {key} |-> IF k = key THEN value ELSE d[k]]

\* What reading element_info of None raises.
NoneTypeMsg == "'NoneType' object has no attribute 'element_info'"

\* What reading element_info of a window that resolves to none raises.
NotFoundMsg == "window not found"

\* self.scan_element(self.window): inspector.window is None, criteria that
\* resolve to no window, or an element.
scan_window(W, win) ==
  IF win = None
  THEN IF depth_exceeded(0) THEN Return(EmptyDict)
       ELSE Return(error_node(NoneTypeMsg, 0))
  ELSE IF "element" \notin DOMAIN win
  THEN IF depth_exceeded(0) THEN Return(EmptyDict)
       ELSE Return(error_node(NotFoundMsg, 0))
  ELSE scan_element(W, win.element, 0, "")

\* The result scan_current_screen stores and returns: the scanned tree with
\* screen_name and scanned_at set on its root.
screen_result(W, win, screen_name, now) ==
  Put(Put(scan_window(W, win).value, "screen_name", screen_name), "scanned_at", now)

\* Mutant: a screen already stored keeps its first result.
store_screen_if_new(elements, screen_name, result) ==
  IF screen_name \in DOMAIN elements THEN elements
  ELSE Put(elements, screen_name, result)

\* `self.elements[screen_name] = result`
store_screen(elements, screen_name, result) == Put(elements, screen_name, result)

\* ------------------------------------------- UIInspector.export_to_yaml

\* Mutant: a bucket without entries is left out.
export_buckets_nonempty(screen_data) ==
  LET all == [buttons |-> find_elements_by_type(screen_data, "Button", <<>>),
              text_fields |-> find_elements_by_type(screen_data, "Edit", <<>>),
              menu_items |-> find_elements_by_type(screen_data, "MenuItem", <<>>),
              tabs |-> find_elements_by_type(screen_data, "TabItem", <<>>),
              combo_boxes |-> find_elements_by_type(screen_data, "ComboBox", <<>>)]
  IN  [b \in {k \in DOMAIN all : all[k] # <<>>} |-> all[b]]

\* The dict under "elements" of a screen of the export.
export_buckets(screen_data) ==
  [buttons |-> find_elements_by_type(screen_data, "Button", <<>>),
   text_fields |-> find_elements_by_type(screen_data, "Edit", <<>>),
   menu_items |-> find_elements_by_type(screen_data, "MenuItem", <<>>),
   tabs |-> find_elements_by_type(screen_data, "TabItem", <<>>),
   combo_boxes |-> find_elements_by_type(screen_data, "ComboBox", <<>>)]

\* export_data once the loop over self.elements has run.
export_data(elements, now) ==
  [version |-> "1.0",
   generated_at |-> now,
   screens |-> [screen_name \in DOMAIN elements |->
                  [scanned_at |-> Get(elements[screen_name], "scanned_at", None),
                   elements |-> export_buckets(elements[screen_name])]]]

\* yaml.dump and yaml.safe_load.  A document is the stream of events of its
\* nodes: a mapping's start, its keys and values in turn, and its end; a
\* sequence's start, its items, and its end; a scalar.
MapStart == [e |-> "map"]
SeqStart == [e |-> "seq"]
NodeEnd == [e |-> "end"]
Scalar(v) == [e |-> "scalar", v |-> v]

\* The keys of a screen's buckets, in the order the dict is built.
BucketOrder == <<"buttons", "text_fields", "menu_items", "tabs", "combo_boxes">>

yaml_rectangle(r) ==
  IF r = None THEN <<Scalar(None)>>
  ELSE <<MapStart, Scalar("left"), Scalar(r.left), Scalar("top"), Scalar(r.top),
         Scalar("width"), Scalar(r.width), Scalar("height"), Scalar(r.height),
         NodeEnd>>

yaml_entry(entry) ==
  <<MapStart, Scalar("name"), Scalar(entry.name),
    Scalar("automation_id"), Scalar(entry.automation_id),
    Scalar("path"), Scalar(entry.path), Scalar("rectangle")>>
    \o yaml_rectangle(entry.rectangle) \o <<NodeEnd>>

RECURSIVE yaml_entries(_, _)
yaml_entries(entries, i) ==
  IF i > Len(entries) THEN <<>>
  ELSE yaml_entry(entries[i]) \o yaml_entries(entries, i + 1)

RECURSIVE yaml_buckets(_, _)
yaml_buckets(buckets, i) ==
  IF i > Len(BucketOrder) THEN <<>>
  ELSE (IF BucketOrder[i] \in DOMAIN buckets
        THEN <<Scalar(BucketOrder[i]), SeqStart>>
               \o yaml_entries(buckets[BucketOrder[i]], 1) \o <<NodeEnd>>
        ELSE <<>>)
       \o yaml_buckets(buckets, i + 1)

yaml_screen(screen) ==
  <<MapStart, Scalar("scanned_at"), Scalar(screen.scanned_at),
    Scalar("elements"), MapStart>>
    \o yaml_buckets(screen.elements, 1) \o <<NodeEnd, NodeEnd>>

RECURSIVE yaml_screens(_, _)
yaml_screens(screens, names) ==
  IF names = {} THEN <<>>
  ELSE LET screen_name == CHOOSE n \in names : TRUE
       IN  <<Scalar(screen_name)>> \o yaml_screen(screens[screen_name])
             \o yaml_screens(screens, names \ {screen_name})

\* yaml.dump(export_data, f, ...)
yaml_dump(data) ==
  <<MapStart, Scalar("version"), Scalar(data.version),
    Scalar("generated_at"), Scalar(data.generated_at),
    Scalar("screens"), MapStart>>
    \o yaml_screens(data.screens, DOMAIN data.screens) \o <<NodeEnd, NodeEnd>>

\* The mapping of a list of key-value pairs.
ToMap(pairs) ==
  [k \in {pairs[j][1] : j \in 1 .. Len(pairs)} |->
     pairs[CHOOSE j \in 1 .. Len(pairs) :
             pairs[j][1] = k /\ \A m \in j + 1 .. Len(pairs) : pairs[m][1] # k][2]]

RECURSIVE yaml_node(_, _)
RECURSIVE yaml_map_entries(_, _, _)
RECURSIVE yaml_seq_items(_, _, _)

\* The node that starts at the i-th event, and the index after it.
yaml_node(events, i) ==
  IF events[i].e = "scalar" THEN [value |-> events[i].v, next |-> i + 1]
  ELSE IF events[i].e = "map" THEN yaml_map_entries(events, i + 1, <<>>)
  ELSE yaml_seq_items(events, i + 1, <<>>)

yaml_map_entries(events, i, pairs) ==
  IF events[i].e = "end" THEN [value |-> ToMap(pairs), next |-> i + 1]
  ELSE LET node == yaml_node(events, i + 1)
       IN  yaml_map_entries(events, node.next,
                            Append(pairs, <<events[i].v, node.value>>))

yaml_seq_items(events, i, items) ==
  IF events[i].e = "end" THEN [value |-> items, next |-> i + 1]
  ELSE LET node == yaml_node(events, i)
       IN  yaml_seq_items(events, node.next, Append(items, node.value))

\* yaml.safe_load(f)
yaml_safe_load(events) == yaml_node(events, 1).value

\* ------------------------------------------------------- the file system

\* A path is the list of its components; the working directory is <<>>.
Parent(path) == SubSeq(path, 1, Len(path) - 1)

\* Path.mkdir(parents=True, exist_ok=True) from the n-th ancestor down: the
\* directories afterwards, and whether it raised (a component is a file, or
\* a directory cannot be created).  The ancestors made before it raises stay.
RECURSIVE mkdir_parents(_, _, _, _, _)
mkdir_parents(D, F, U, dir, n) ==
  IF n > Len(dir) THEN [dirs |-> D, raised |-> FALSE]
  ELSE LET ancestor == SubSeq(dir, 1, n)
       IN  IF ancestor \in D THEN mkdir_parents(D, F, U, dir, n + 1)
           ELSE IF ancestor \in DOMAIN F \/ ancestor \in U
                THEN [dirs |-> D, raised |-> TRUE]
                ELSE mkdir_parents(D \cup {ancestor}, F, U, dir, n + 1)

\* open(path, "w"): whether it raises (the parent is not a directory, the
\* path is a directory, or the file cannot be written).
open_raises(D, F, U, path) ==
  Parent(path) \notin D \/ path \in D \/ path \in U

\* export_to_yaml(output_path) on the file system (D, F, U) at time `now`:
\* the directories and files afterwards and what the call returns or raises.
DefaultExport == <<"inspector_export.yaml">>

export_to_yaml(elements, D, F, U, output_path, now) ==
  LET path == IF output_path = None THEN DefaultExport ELSE output_path
      made == mkdir_parents(D, F, U, Parent(path), 1)
  IN  IF made.raised
      THEN [dirs |-> made.dirs, files |-> F, returned |-> Raise("OSError: mkdir")]
      ELSE IF open_raises(made.dirs, F, U, path)
      THEN [dirs |-> made.dirs, files |-> F, returned |-> Raise("OSError: open")]
      ELSE [dirs |-> made.dirs,
            files |-> Put(F, path, yaml_dump(export_data(elements, now))),
            returned |-> Return(path)]

\* ------------------------------------------------------ WindowMapper.run

\* The element tree of the n-th top-level window is rooted at element n.
window_root(handle) == handle

\* `Application(backend=...).connect(handle=win["handle"])` raises.
connect_raises(D, handle) == "connect" \in D[handle].raises

\* f"{win['width']}x{win['height']}"
size_text(width, height) == ToString(width) \o "x" \o ToString(height)

RECURSIVE map_windows(_, _, _, _, _, _)

\* Mutant: a title that has an entry keeps it.
map_windows_first_kept(W, D, windows, i, all_mappings, now) ==
  IF i > Len(windows) THEN [mappings |-> all_mappings, now |-> now]
  ELSE IF connect_raises(D, windows[i].handle) \/ windows[i].title \in DOMAIN all_mappings
       THEN map_windows(W, D, windows, i + 1, all_mappings, now)
       ELSE map_windows(W, D, windows, i + 1,
              Put(all_mappings, windows[i].title,
                  [size |-> size_text(windows[i].width, windows[i].height),
                   elements |-> map_window_elements(W, window_root(windows[i].handle)).value,
                   mapped_at |-> now]),
              now + 1)

\* The loop `for win in windows` from its i-th window on: all_mappings at its
\* end and the time then.  A window whose connect raises is reported and
\* skipped; a later window with the same title replaces the earlier entry.
map_windows(W, D, windows, i, all_mappings, now) ==
  IF i > Len(windows) THEN [mappings |-> all_mappings, now |-> now]
  ELSE IF connect_raises(D, windows[i].handle)
       THEN map_windows(W, D, windows, i + 1, all_mappings, now)
       ELSE map_windows(W, D, windows, i + 1,
              Put(all_mappings, windows[i].title,
                  [size |-> size_text(windows[i].width, windows[i].height),
                   elements |-> map_window_elements(W, window_root(windows[i].handle)).value,
                   mapped_at |-> now]),
              now + 1)

\* json.dump(all_mappings, f, ...), as the stream of events of its nodes.
json_record(record) ==
  <<MapStart, Scalar("depth"), Scalar(record.depth), Scalar("type"), Scalar(record.type),
    Scalar("id"), Scalar(record.id), Scalar("name"), Scalar(record.name),
    Scalar("class"), Scalar(record.class)>>
    \o (IF "value" \in DOMAIN record THEN <<Scalar("value"), Scalar(record.value)>> ELSE <<>>)
    \o (IF "checked" \in DOMAIN record
        THEN <<Scalar("checked"), Scalar(record.checked)>> ELSE <<>>)
    \o <<NodeEnd>>

RECURSIVE json_records(_, _)
json_records(records, i) ==
  IF i > Len(records) THEN <<>>
  ELSE json_record(records[i]) \o json_records(records, i + 1)

RECURSIVE json_windows(_, _)
json_windows(all_mappings, titles) ==
  IF titles = {} THEN <<>>
  ELSE LET title == CHOOSE t \in titles : TRUE
       IN  <<Scalar(title), MapStart, Scalar("size"), Scalar(all_mappings[title].size),
             Scalar("elements"), SeqStart>>
             \o json_records(all_mappings[title].elements, 1)
             \o <<NodeEnd, Scalar("mapped_at"), Scalar(all_mappings[title].mapped_at),
                  NodeEnd>>
             \o json_windows(all_mappings, titles \ {title})

json_dump(all_mappings) ==
  <<MapStart>> \o json_windows(all_mappings, DOMAIN all_mappings) \o <<NodeEnd>>

\* Mutant: run goes on without windows.
no_windows_never(windows) == FALSE

\* `if not windows`
no_windows(windows) == windows = <<>>

\* Mutant: the write is not in a try.
run_result_unguarded(all_mappings, write_raised) ==
  IF write_raised THEN Raise("OSError: open") ELSE Return(all_mappings)

\* `except Exception as e: print(...)` around the write, then
\* `return all_mappings`.
run_result(all_mappings, write_raised) == Return(all_mappings)

\* mapper.run(export_path) on the platform (W, D, R) and the file system
\* (Dirs, F, U) at time `now`: the files and the time afterwards, and what
\* the call returns or raises.
run(W, D, R, pattern, Dirs, F, U, export_path, now) ==
  LET windows == find_windows(D, R, pattern)
  IN  IF windows.raised THEN [files |-> F, now |-> now, returned |-> windows]
      ELSE IF no_windows(windows.value)
      THEN [files |-> F, now |-> now, returned |-> Return(EmptyDict)]
      ELSE LET mapping == map_windows(W, D, windows.value, 1, EmptyDict, now)
               write_raised == export_path # None /\ open_raises(Dirs, F, U, export_path)
           IN  [files |-> IF export_path # None /\ ~write_raised
                          THEN Put(F, export_path, json_dump(mapping.mappings))
                          ELSE F,
                now |-> mapping.now,
                returned |-> run_result(mapping.mappings, write_raised)]

\* The value of a result variable before its operation has run.
NotRun == [pending |-> TRUE]
HasRun(outcome) == "pending" \notin DOMAIN outcome

\* ---------------------------------------------------- UIInspector.connect

\* The window_title or window_pattern of an inspector that has none (None).
NoPattern == ""

\* desktop.window(title_re=pattern): the window the criteria resolve to, when
\* exactly one enumerated window matches, and the unresolved criteria
\* otherwise.  Nothing is looked up until the object is used.
desktop_window(D, pattern) ==
  LET matches == SelectWindows(D, pattern)
  IN  IF Len(matches) = 1
      THEN [element |-> window_root(matches[1].handle), handle |-> matches[1].handle]
      ELSE [title_re |-> pattern]

\* self.window.window_text() raises: no window or several match the criteria,
\* or the read of the title does.
window_text_raises(D, win) ==
  \/ "element" \notin DOMAIN win
  \/ "window_text" \in D[win.handle].raises

\* Mutant: the window is stored once its title has been read.
connect_try_store_last(D, R, pattern, window) ==
  IF "window" \in R THEN [window |-> window, returned |-> Return(FALSE)]
  ELSE LET found_window == desktop_window(D, pattern)
       IN  IF window_text_raises(D, found_window)
           THEN [window |-> window, returned |-> Return(FALSE)]
           ELSE [window |-> found_window, returned |-> Return(TRUE)]

\* The try block of connect: `self.window = desktop.window(title_re=pattern)`,
\* then the read of its title; `except Exception` returns False.  The call
\* desktop.window raises on a platform that resolves at once (R has "window").
connect_try(D, R, pattern, window) ==
  IF "window" \in R THEN [window |-> window, returned |-> Return(FALSE)]
  ELSE LET found_window == desktop_window(D, pattern)
       IN  IF window_text_raises(D, found_window)
           THEN [window |-> found_window, returned |-> Return(FALSE)]
           ELSE [window |-> found_window, returned |-> Return(TRUE)]

\* inspector.connect(window_pattern) of an inspector with the given
\* window_title and window: the window afterwards and what the call returns
\* or raises.  Without a pattern the windows are listed, by a call that is
\* not in a try.
connect(D, R, window_title, window_pattern, window) ==
  LET pattern == IF window_pattern # NoPattern THEN window_pattern ELSE window_title
  IN  IF pattern # NoPattern THEN connect_try(D, R, pattern, window)
      ELSE IF desktop_windows(D, R).raised
           THEN [window |-> window, returned |-> desktop_windows(D, R)]
           ELSE [window |-> window, returned |-> Return(FALSE)]

\* ------------------------------------------------------------------ cli

\* The status of a process whose main raised: sys.exit(main()) is not
\* reached and the interpreter exits with 1.
UncaughtExit == 1

\* sys.exit(main()) on what main returned or raised.
Exited(status) == [status |-> status]
exit_status_of(outcome) ==
  Exited(IF outcome.raised THEN UncaughtExit ELSE outcome.value)

\* Mutant: the result of connect is not looked at.
connect_failed_never(result) == FALSE

\* `if not inspector.connect()`
connect_failed(result) == result = FALSE

\* cmd_inspect(args) of a new inspector with window_title = args.title, up to
\* its return or to the first prompt of the interactive session: the
\* inspector and the file system then, the inspector's methods called, in
\* order, and what cmd_inspect returned or raised (NotRun while the session
\* lasts).
cmd_inspect(W, D, R, title, Dirs, F, U, args, now) ==
  LET connected == connect(D, R, title, NoPattern, None)
      same == [window |-> connected.window, elements |-> EmptyDict, dirs |-> Dirs,
               files |-> F, now |-> now, calls |-> <<"connect">>,
               returned |-> connected.returned]
  IN  IF connected.returned.raised THEN same
      ELSE IF connect_failed(connected.returned.value)
      THEN [same EXCEPT !.returned = Return(1)]
      ELSE IF args.export
      THEN LET result == screen_result(W, connected.window, args.screen, now)
               stored == store_screen(EmptyDict, args.screen, result)
               done == export_to_yaml(stored, Dirs, F, U, args.output, now + 1)
           IN  [window |-> connected.window, elements |-> stored, dirs |-> done.dirs,
                files |-> done.files, now |-> now + 2,
                calls |-> <<"connect", "scan_current_screen", "export_to_yaml">>,
                returned |-> IF done.returned.raised THEN done.returned ELSE Return(0)]
      ELSE [same EXCEPT !.calls = <<"connect", "interactive_mode">>,
                        !.returned = NotRun]

\* cmd_map(args) of a new mapper with title_pattern = args.title: the files
\* and the time afterwards, and what cmd_map returned or raised.
cmd_map(W, D, R, title, Dirs, F, U, args, now) ==
  LET done == run(W, D, R, title, Dirs, F, U, args.export, now)
  IN  [files |-> done.files, now |-> done.now,
       returned |-> IF done.returned.raised THEN done.returned ELSE Return(0)]

\* Mutant: a depth that is not a number counts as 0.
int_or_zero(word) ==
  IF \E n \in -9 .. 9 : ToString(n) = word
  THEN Return(CHOOSE n \in -9 .. 9 : ToString(n) = word)
  ELSE Return(0)

\* int(parts[1]) of the depth command.
DepthArgs == -9 .. 9
int(word) ==
  IF \E n \in DepthArgs : ToString(n) = word
  THEN Return(CHOOSE n \in DepthArgs : ToString(n) = word)
  ELSE Raise("ValueError")

\* ------------------------------------------------------- initial states

\* UIInspector.__init__: no window, no scanned screen.
InitInspector ==
  /\ inspector_window = None
  /\ inspector_elements = <<>>
  /\ last_scan = None
  /\ scan_world = <<>>
  /\ clock = 0

\* The working directory exists and is empty.
InitFiles ==
  /\ dirs = {<<>>}
  /\ files = <<>>
  /\ unwritable = {}

\* No operation and no command has run.
InitCommand ==
  /\ op = "" /\ arg = None /\ returned = NotRun
  /\ calls = <<>> /\ exit_status = NotRun

\* No walk has run, and there is no desktop to search.
InitWalker ==
  /\ edits = 0 /\ faults = 0
  /\ pc = "idle"
  /\ scanned = NotRun /\ query = "" /\ found = NotRun /\ mapped = NotRun
  /\ stack = <<>> /\ collected = <<>>

InitNoDesktop ==
  /\ desktop = <<>> /\ enum_raises = {} /\ title_pattern = ""
  /\ windows_info = NotRun

\* An inspector built with max_depth = MaxDepth whose window is None or, as
\* the tests set it, the mock window.
InitScreens ==
  /\ elem = mock_window(ShapeBush)
  /\ max_depth = MaxDepth
  /\ InitWalker /\ InitNoDesktop
  /\ inspector_window = None \/ inspector_window = [element |-> Root]
  /\ inspector_elements = <<>> /\ last_scan = None /\ scan_world = <<>> /\ clock = 0
  /\ InitFiles /\ InitCommand

\* A walk starts from the tests' mock window over one of the base shapes, with
\* an inspector or mapper built with max_depth in 0..MaxDepth; no operation
\* has run.
InitWalk ==
  /\ \E shape \in Shapes : elem = mock_window(shape)
  /\ max_depth \in 0 .. MaxDepth
  /\ edits = 0 /\ faults = 0
  /\ pc = "idle"
  /\ scanned = NotRun /\ query = "" /\ found = NotRun /\ mapped = NotRun
  /\ desktop = <<>> /\ enum_raises = {} /\ title_pattern = ""
  /\ windows_info = NotRun
  /\ stack = <<>> /\ collected = <<>>
  /\ InitInspector /\ InitFiles /\ InitCommand

\* The window search starts from an empty desktop and a mapper built with or
\* without a title pattern.
InitDesktop ==
  /\ elem = mock_window(ShapeBush)
  /\ max_depth = MaxDepth
  /\ edits = 0 /\ faults = 0
  /\ pc = "idle"
  /\ scanned = NotRun /\ query = "" /\ found = NotRun /\ mapped = NotRun
  /\ desktop = <<>>
  /\ enum_raises \in SUBSET {"filtered", "all"}
  /\ title_pattern \in Patterns
  /\ windows_info = NotRun
  /\ stack = <<>> /\ collected = <<>>
  /\ InitInspector /\ InitFiles /\ InitCommand

\* ---------------------------------------------------- environment steps

walk_results == <<scanned, query, found, mapped>>
desktop_vars == <<desktop, enum_raises, title_pattern, windows_info>>
\* The rest of the state, for the operations of an inspector session.
walker_vars == <<edits, faults, pc, walk_results, stack, collected>>

\* The application changes an element's name, automation id or control type.
SetName(h, v) ==
  /\ pc = "idle" /\ edits < MaxEdits /\ elem[h].name # v
  /\ elem' = [elem EXCEPT ![h].name = v]
  /\ edits' = edits + 1
  /\ UNCHANGED <<session_vars, fs_vars, cli_vars, stack, collected, max_depth, faults, pc, walk_results, desktop_vars>>

SetAutomationId(h, v) ==
  /\ pc = "idle" /\ edits < MaxEdits /\ elem[h].automation_id # v
  /\ elem' = [elem EXCEPT ![h].automation_id = v]
  /\ edits' = edits + 1
  /\ UNCHANGED <<session_vars, fs_vars, cli_vars, stack, collected, max_depth, faults, pc, walk_results, desktop_vars>>

SetControlType(h, v) ==
  /\ pc = "idle" /\ edits < MaxEdits /\ elem[h].control_type # v
  /\ elem' = [elem EXCEPT ![h].control_type = v]
  /\ edits' = edits + 1
  /\ UNCHANGED <<session_vars, fs_vars, cli_vars, stack, collected, max_depth, faults, pc, walk_results, desktop_vars>>

\* A read of element h starts to raise (the handle went stale).
BreakRead(h, r) ==
  /\ pc = "idle" /\ faults < MaxFaults /\ r \notin elem[h].raises
  /\ elem' = [elem EXCEPT ![h].raises = @ \cup {r}]
  /\ faults' = faults + 1
  /\ UNCHANGED <<session_vars, fs_vars, cli_vars, stack, collected, max_depth, edits, pc, walk_results, desktop_vars>>

\* Enumerating the children of h raises after k children.
BreakChildren(h, k) ==
  /\ pc = "idle" /\ faults < MaxFaults /\ elem[h].children_raise_at = NoRaise
  /\ k <= Len(elem[h].children)
  /\ elem' = [elem EXCEPT ![h].children_raise_at = k]
  /\ faults' = faults + 1
  /\ UNCHANGED <<session_vars, fs_vars, cli_vars, stack, collected, max_depth, edits, pc, walk_results, desktop_vars>>

\* The application lists element c once more among the children of h, whatever
\* that makes of the structure (a shared element, a cycle); it does so once.
AddChild(h, c) ==
  /\ pc = "idle" /\ edits = 0
  /\ elem' = [elem EXCEPT ![h].children = Append(@, c)]
  /\ edits' = edits + 1
  /\ UNCHANGED <<session_vars, fs_vars, cli_vars, stack, collected, max_depth, faults, pc, walk_results, desktop_vars>>

\* The application changes the legacy value of h.
SetValue(h, v) ==
  /\ pc = "idle" /\ edits < MaxEdits /\ elem[h].value # v
  /\ elem' = [elem EXCEPT ![h].value = v]
  /\ edits' = edits + 1
  /\ UNCHANGED <<session_vars, fs_vars, cli_vars, stack, collected, max_depth, faults, pc, walk_results, desktop_vars>>

\* Element h becomes toggleable, in state s.
SetToggleState(h, s) ==
  /\ pc = "idle" /\ edits < MaxEdits
  /\ "get_toggle_state" \in elem[h].raises \/ elem[h].toggle_state # s
  /\ elem' = [elem EXCEPT ![h].toggle_state = s,
                          ![h].raises = @ \ {"get_toggle_state"}]
  /\ edits' = edits + 1
  /\ UNCHANGED <<session_vars, fs_vars, cli_vars, stack, collected, max_depth, faults, pc, walk_results, desktop_vars>>

\* The read r of a field of h starts to raise.
StaleField(h, r) ==
  /\ pc = "idle" /\ edits < MaxEdits /\ r \notin elem[h].raises
  /\ elem' = [elem EXCEPT ![h].raises = @ \cup {r}]
  /\ edits' = edits + 1
  /\ UNCHANGED <<session_vars, fs_vars, cli_vars, stack, collected, max_depth, faults, pc, walk_results, desktop_vars>>

\* inspector.connect(window_pattern)
Connect(window_pattern) ==
  /\ clock < MaxScans
  /\ LET done == connect(desktop, enum_raises, title_pattern, window_pattern,
                         inspector_window)
     IN  /\ inspector_window' = done.window
         /\ returned' = done.returned
  /\ clock' = clock + 1
  /\ op' = "connect" /\ arg' = window_pattern
  /\ UNCHANGED <<elem, max_depth, walker_vars, desktop_vars, inspector_elements,
                 last_scan, scan_world, fs_vars, calls, exit_status>>

\* A top-level window closes: the last one opened.
CloseWindow ==
  /\ desktop # <<>>
  /\ desktop' = SubSeq(desktop, 1, Len(desktop) - 1)
  /\ UNCHANGED <<elem, max_depth, walker_vars, enum_raises, title_pattern,
                 windows_info, session_vars, fs_vars, cli_vars>>

\* `win-gui-inspector inspect --title title_pattern [--export] --screen screen
\* --output output`, in a new process.  Without --export the step ends at the
\* first prompt of the interactive session.
CmdInspect(export, screen, output) ==
  /\ op = ""
  /\ LET args == [export |-> export, screen |-> screen, output |-> output]
         done == cmd_inspect(elem, desktop, enum_raises, title_pattern, dirs, files,
                             unwritable, args, clock)
     IN  /\ inspector_window' = done.window
         /\ inspector_elements' = done.elements
         /\ scan_world' = IF Truthy(done.elements)
                          THEN Put(scan_world, screen,
                                   [world |-> elem, window |-> done.window, at |-> clock])
                          ELSE scan_world
         /\ dirs' = done.dirs
         /\ files' = done.files
         /\ clock' = done.now
         /\ calls' = done.calls
         /\ returned' = done.returned
         /\ exit_status' = IF HasRun(done.returned) THEN exit_status_of(done.returned)
                           ELSE NotRun
         /\ arg' = args
  /\ op' = "cmd_inspect"
  /\ UNCHANGED <<elem, max_depth, walker_vars, desktop_vars, last_scan, unwritable>>

\* `win-gui-inspector map --title title_pattern --export export`, in a new
\* process.
CmdMap(export) ==
  /\ op = ""
  /\ LET args == [export |-> export]
         done == cmd_map(elem, desktop, enum_raises, title_pattern, dirs, files,
                         unwritable, args, clock)
     IN  /\ files' = done.files
         /\ clock' = done.now
         /\ returned' = done.returned
         /\ exit_status' = exit_status_of(done.returned)
         /\ arg' = args
  /\ op' = "cmd_map"
  /\ calls' = <<"run">>
  /\ UNCHANGED <<elem, max_depth, walker_vars, desktop_vars, inspector_window,
                 inspector_elements, last_scan, scan_world, dirs, unwritable>>

\* The interactive session is at its prompt.
InSession == op = "cmd_inspect" /\ ~HasRun(returned)

\* The lines typed at the prompt, stripped, lowered and split.
Commands ==
  {<<>>, <<"quit">>, <<"q">>, <<"scan">>, <<"scan", "order">>, <<"tree">>, <<"summary">>,
   <<"export">>, <<"depth">>, <<"depth", "1">>, <<"depth", "x">>, <<"help">>}

\* One turn of the loop of interactive_mode on the line `parts`.  quit ends
\* the session and cmd_inspect returns 0; an export that raises ends the
\* process.
InteractiveCommand(parts) ==
  /\ InSession
  /\ (parts # <<>> /\ parts[1] \in {"scan", "export"}) => clock < MaxScans
  /\ LET action == IF parts = <<>> THEN "" ELSE parts[1]
         screen_name == IF Len(parts) > 1 THEN parts[2] ELSE "main"
         result == screen_result(elem, inspector_window, screen_name, clock)
         exported == export_to_yaml(inspector_elements, dirs, files, unwritable,
                                    None, clock)
         depth == IF Len(parts) > 1 THEN int(parts[2]) ELSE Raise("no argument")
         scans == action = "scan"
         exports == action = "export" /\ Truthy(inspector_elements)
     IN  /\ inspector_elements' = IF scans
                                  THEN store_screen(inspector_elements, screen_name, result)
                                  ELSE inspector_elements
         /\ last_scan' = IF scans THEN result ELSE last_scan
         /\ scan_world' = IF scans
                          THEN Put(scan_world, screen_name,
                                   [world |-> elem, window |-> inspector_window,
                                    at |-> clock])
                          ELSE scan_world
         /\ clock' = IF scans \/ exports THEN clock + 1 ELSE clock
         /\ dirs' = IF exports THEN exported.dirs ELSE dirs
         /\ files' = IF exports THEN exported.files ELSE files
         /\ max_depth' = IF action = "depth" /\ ~depth.raised THEN depth.value
                         ELSE max_depth
         /\ returned' = IF action \in {"quit", "q"} THEN Return(0)
                        ELSE IF exports /\ exported.returned.raised THEN exported.returned
                        ELSE returned
         /\ exit_status' = IF HasRun(returned') THEN exit_status_of(returned') ELSE NotRun
  /\ UNCHANGED <<elem, walker_vars, desktop_vars, inspector_window, unwritable, op, arg,
                 calls>>

\* input() raises EOFError or KeyboardInterrupt: the loop breaks and
\* cmd_inspect returns 0.
InputEnds ==
  /\ InSession
  /\ returned' = Return(0)
  /\ exit_status' = exit_status_of(returned')
  /\ UNCHANGED <<elem, max_depth, walker_vars, desktop_vars, session_vars, fs_vars, op,
                 arg, calls>>

\* A top-level window opens.
WindowKinds ==
  {<<t, s, {}>> : t \in Titles, s \in Sizes}
    \cup {<<t, <<800, 600>>, {"rectangle"}>> : t \in Titles}
    \cup {<<"Main", <<800, 600>>, {"window_text"}>>}

OpenWindow(k) ==
  /\ pc = "idle" /\ Len(desktop) < MaxWindows
  /\ desktop' = Append(desktop, mock_top_window(k[1], k[2], k[3], Len(desktop) + 1))
  /\ UNCHANGED <<session_vars, fs_vars, cli_vars, stack, collected, elem, max_depth, edits, faults, pc, walk_results, enum_raises,
                 title_pattern, windows_info>>

\* ------------------------------------------------------------ operations

QueryTypes == {"Button", "Edit", "MenuItem", "Pane"}

\* inspector.scan_element(window)
ScanElement ==
  /\ pc = "idle"
  /\ scanned' = scan_element(elem, Root, 0, "")
  /\ pc' = "scanned"
  /\ UNCHANGED <<session_vars, fs_vars, cli_vars, stack, collected, elem, max_depth, edits, faults, query, found, mapped, desktop_vars>>

\* inspector.find_elements_by_type(tree, control_type) on the scanned tree
FindElementsByType(t) ==
  /\ pc = "scanned" /\ ~scanned.raised
  /\ query' = t
  /\ found' = Return(find_elements_by_type(scanned.value, t, <<>>))
  /\ pc' = "found"
  /\ UNCHANGED <<session_vars, fs_vars, cli_vars, stack, collected, elem, max_depth, edits, faults, scanned, mapped, desktop_vars>>

\* mapper.map_window_elements(window), on the window as it is or after an
\* inspector has scanned it
MapWindowElements ==
  /\ pc \in {"idle", "scanned"}
  /\ mapped' = map_window_elements(elem, Root)
  /\ pc' = "mapped"
  /\ UNCHANGED <<session_vars, fs_vars, cli_vars, stack, collected, elem, max_depth, edits, faults, scanned, query, found, desktop_vars>>

\* mapper.find_windows()
FindWindows ==
  /\ pc = "idle"
  /\ windows_info' = find_windows(desktop, enum_raises, title_pattern)
  /\ pc' = "find_windows"
  /\ UNCHANGED <<session_vars, fs_vars, cli_vars, stack, collected, elem, max_depth, edits, faults, walk_results, desktop,
                 enum_raises, title_pattern>>

ScreenNames == {"main", "order"}

\* inspector.scan_current_screen(screen_name)
ScanCurrentScreen(screen_name) ==
  /\ clock < MaxScans
  /\ LET result == screen_result(elem, inspector_window, screen_name, clock)
     IN  /\ inspector_elements' = store_screen(inspector_elements, screen_name, result)
         /\ returned' = Return(result)
  /\ scan_world' = Put(scan_world, screen_name,
                       [world |-> elem, window |-> inspector_window, at |-> clock])
  /\ clock' = clock + 1
  /\ op' = "scan_current_screen" /\ arg' = screen_name
  /\ UNCHANGED <<elem, max_depth, walker_vars, desktop_vars, inspector_window, last_scan,
                 fs_vars, calls, exit_status>>

\* The paths the tools are asked to export to, and the paths of the file
\* system that something else creates or protects.
OutputPaths == {None, <<"out">>, <<"exports", "out">>, <<"exports", "new", "out">>}
OtherDirs == {<<"exports">>}
OtherFiles == {<<"exports">>, <<"out">>}
Protected == {<<"exports">>, <<"out">>, <<"exports", "out">>, <<"exports", "new">>}

\* A directory appears.
MakeDir(d) ==
  /\ op = "" /\ edits < MaxEdits
  /\ d \notin dirs /\ d \notin DOMAIN files /\ Parent(d) \in dirs
  /\ dirs' = dirs \cup {d}
  /\ edits' = edits + 1
  /\ UNCHANGED <<elem, max_depth, faults, pc, walk_results, stack, collected,
                 desktop_vars, session_vars, files, unwritable, cli_vars>>

\* A file appears.
CreateFile(p) ==
  /\ op = "" /\ edits < MaxEdits
  /\ p \notin dirs /\ p \notin DOMAIN files /\ Parent(p) \in dirs
  /\ files' = Put(files, p, <<>>)
  /\ edits' = edits + 1
  /\ UNCHANGED <<elem, max_depth, faults, pc, walk_results, stack, collected,
                 desktop_vars, session_vars, dirs, unwritable, cli_vars>>

\* Creating or writing p starts to raise OSError (no permission).
Protect(p) ==
  /\ op = "" /\ edits < MaxEdits
  /\ p \notin unwritable
  /\ unwritable' = unwritable \cup {p}
  /\ edits' = edits + 1
  /\ UNCHANGED <<elem, max_depth, faults, pc, walk_results, stack, collected,
                 desktop_vars, session_vars, dirs, files, cli_vars>>

\* inspector.export_to_yaml(output_path)
ExportToYaml(output_path) ==
  /\ LET done == export_to_yaml(inspector_elements, dirs, files, unwritable,
                                output_path, clock)
     IN  /\ dirs' = done.dirs
         /\ files' = done.files
         /\ returned' = done.returned
  /\ clock' = clock + 1
  /\ op' = "export_to_yaml" /\ arg' = output_path
  /\ UNCHANGED <<elem, max_depth, walker_vars, desktop_vars, inspector_window,
                 inspector_elements, last_scan, scan_world, unwritable, calls, exit_status>>

\* mapper.run(export_path)
Run(export_path) ==
  /\ LET done == run(elem, desktop, enum_raises, title_pattern, dirs, files,
                     unwritable, export_path, clock)
     IN  /\ files' = done.files
         /\ clock' = done.now
         /\ returned' = done.returned
  /\ op' = "run" /\ arg' = export_path
  /\ UNCHANGED <<elem, max_depth, walker_vars, desktop_vars, inspector_window,
                 inspector_elements, last_scan, scan_world, dirs, unwritable, calls,
                 exit_status>>

\* ------------------------------------------- the walks, call by call

\* The deepest stack the model follows.
StackCap == MaxDepth + 3

Top == stack[Len(stack)]

\* A call scan_element(element, depth, parent_path) at its first statement.
Frame(element, depth, parent_path) ==
  [element |-> element, depth |-> depth, parent_path |-> parent_path,
   stage |-> "enter", result |-> EmptyDict, i |-> 1]

\* `return` of v from the innermost call of the tree walk: to the caller's
\* `child_info = ...; if child_info: result["children"].append(child_info)`,
\* or to the client.
ReturnTree(v) ==
  IF Len(stack) = 1
  THEN /\ stack' = <<>>
       /\ scanned' = Return(v)
       /\ pc' = "scanned"
  ELSE /\ stack' = Append(SubSeq(stack, 1, Len(stack) - 2),
                          [stack[Len(stack) - 1] EXCEPT
                             !.result.children = IF keep_child(v) THEN Append(@, v) ELSE @,
                             !.i = @ + 1])
       /\ UNCHANGED <<session_vars, fs_vars, cli_vars, scanned, pc>>

\* The client calls inspector.scan_element(window).
StartScan ==
  /\ pc = "idle"
  /\ stack' = <<Frame(Root, 0, "")>>
  /\ pc' = "scanning"
  /\ UNCHANGED <<session_vars, fs_vars, cli_vars, elem, max_depth, edits, faults, walk_results, desktop_vars, collected>>

\* The innermost call runs from the depth check to the start of its loop.
ScanEnter ==
  /\ pc = "scanning" /\ Top.stage = "enter"
  /\ IF depth_exceeded(Top.depth) THEN ReturnTree(EmptyDict)
     ELSE LET info == element_info(elem, Top.element)
          IN  IF info.raised THEN ReturnTree(error_node(info.exc, Top.depth))
              ELSE LET name == OrEmpty(info.value.name)
                       control_type == OrEmpty(info.value.control_type)
                       automation_id == OrEmpty(info.value.automation_id)
                       class_name == OrEmpty(info.value.class_name)
                       path == current_path(Top.parent_path,
                                            path_segment(automation_id, name, control_type))
                       result == [name |-> name, control_type |-> control_type,
                                  automation_id |-> automation_id,
                                  class_name |-> class_name,
                                  path |-> path, depth |-> Top.depth,
                                  rectangle |-> rect_info(elem, Top.element),
                                  children |-> <<>>]
                   IN  /\ stack' = [stack EXCEPT ![Len(stack)] =
                                      [@ EXCEPT !.stage = "loop", !.result = result]]
                       /\ UNCHANGED <<session_vars, fs_vars, cli_vars, scanned, pc>>
  /\ UNCHANGED <<session_vars, fs_vars, cli_vars, elem, max_depth, edits, faults, query, found, mapped, desktop_vars, collected>>

\* The innermost call's loop: it calls scan_element on the next child, or
\* ends (by exhaustion or by an exception the inner try swallows) and the call
\* returns its result.
ScanLoop ==
  /\ pc = "scanning" /\ Top.stage = "loop"
  /\ IF Top.i > Len(children_yielded(elem, Top.element))
     THEN ReturnTree(Top.result)
     ELSE /\ Len(stack) < StackCap
          /\ stack' = Append(stack, Frame(children_yielded(elem, Top.element)[Top.i],
                                          Top.depth + 1, Top.result.path))
          /\ UNCHANGED <<session_vars, fs_vars, cli_vars, scanned, pc>>
  /\ UNCHANGED <<session_vars, fs_vars, cli_vars, elem, max_depth, edits, faults, query, found, mapped, desktop_vars, collected>>

\* A call of the mapper's nested scan_element(elem, depth) at its first
\* statement.
MapFrame(element, depth) ==
  [element |-> element, depth |-> depth, stage |-> "enter", i |-> 1]

\* The innermost call of the flat walk ends: its caller's loop goes on, or
\* map_window_elements returns `elements`.
ReturnFlat(elements) ==
  /\ collected' = elements
  /\ IF Len(stack) = 1
     THEN /\ stack' = <<>>
          /\ mapped' = Return(elements)
          /\ pc' = "mapped"
     ELSE /\ stack' = Append(SubSeq(stack, 1, Len(stack) - 2),
                             [stack[Len(stack) - 1] EXCEPT !.i = @ + 1])
          /\ UNCHANGED <<session_vars, fs_vars, cli_vars, mapped, pc>>

\* The client calls mapper.map_window_elements(window): `elements = []` and
\* `scan_element(window, 0)`.
StartMap ==
  /\ pc = "scanned"
  /\ collected' = <<>>
  /\ stack' = <<MapFrame(Root, 0)>>
  /\ pc' = "mapping"
  /\ UNCHANGED <<session_vars, fs_vars, cli_vars, elem, max_depth, edits, faults, walk_results, desktop_vars>>

\* The innermost call runs from the depth check to the start of its loop.
MapEnter ==
  /\ pc = "mapping" /\ Top.stage = "enter"
  /\ IF map_depth_exceeded(Top.depth) THEN ReturnFlat(collected)
     ELSE LET info == element_info(elem, Top.element)
          IN  IF info.raised THEN ReturnFlat(collected)
              ELSE LET name == OrEmpty(info.value.name)
                       ctrl_type == OrEmpty(info.value.control_type)
                       auto_id == OrEmpty(info.value.automation_id)
                       class_name == OrEmpty(info.value.class_name)
                       record == flat_record(Top.depth, ctrl_type, auto_id, name, class_name,
                                             edit_value(elem, Top.element, ctrl_type),
                                             checkbox_state(elem, Top.element, ctrl_type))
                   IN  /\ collected' = IF is_useful(ctrl_type, auto_id, name)
                                       THEN Append(collected, record) ELSE collected
                       /\ stack' = [stack EXCEPT ![Len(stack)].stage = "loop"]
                       /\ UNCHANGED <<session_vars, fs_vars, cli_vars, mapped, pc>>
  /\ UNCHANGED <<session_vars, fs_vars, cli_vars, elem, max_depth, edits, faults, scanned, query, found, desktop_vars>>

\* The innermost call's loop: it calls scan_element on the next child, or
\* ends (by exhaustion or by an exception the try swallows).
MapLoop ==
  /\ pc = "mapping" /\ Top.stage = "loop"
  /\ IF Top.i > Len(children_yielded(elem, Top.element))
     THEN ReturnFlat(collected)
     ELSE /\ Len(stack) < StackCap
          /\ stack' = Append(stack, MapFrame(children_yielded(elem, Top.element)[Top.i],
                                             Top.depth + 1))
          /\ UNCHANGED <<session_vars, fs_vars, cli_vars, mapped, pc, collected>>
  /\ UNCHANGED <<session_vars, fs_vars, cli_vars, elem, max_depth, edits, faults, scanned, query, found, desktop_vars>>

\* --------------------------------------------------------- specifications

Walk ==
  \/ ScanElement
  \/ \E t \in QueryTypes : FindElementsByType(t)
  \/ MapWindowElements

\* Walks of worlds in which every read succeeds but get_toggle_state on the
\* elements built without a toggle state.
NextReadable ==
  \/ \E h \in Nodes, v \in Names : SetName(h, v)
  \/ \E h \in Nodes, v \in AutomationIds : SetAutomationId(h, v)
  \/ \E h \in Nodes, v \in ControlTypes : SetControlType(h, v)
  \/ Walk

SpecReadable == InitWalk /\ [][NextReadable]_vars

\* Walks of worlds in which reads raise.
NextFaulty ==
  \/ \E h \in Nodes, r \in Reads : BreakRead(h, r)
  \/ \E h \in Nodes : \E k \in 0 .. Len(elem[h].children) : BreakChildren(h, k)
  \/ Walk

SpecFaulty == InitWalk /\ [][NextFaulty]_vars

\* The window search.
NextDesktop ==
  \/ \E k \in WindowKinds : OpenWindow(k)
  \/ FindWindows

SpecDesktop == InitDesktop /\ [][NextDesktop]_vars

\* A client scans the window with an inspector and then maps it with a
\* mapper; each call runs to its end, one statement group at a time.
NextSteps ==
  \/ \E h, c \in Nodes : AddChild(h, c)
  \/ StartScan
  \/ ScanEnter
  \/ ScanLoop
  \/ StartMap
  \/ MapEnter
  \/ MapLoop

SpecSteps == InitWalk /\ [][NextSteps]_vars /\ WF_vars(NextSteps)

\* Flat walks of worlds whose Edit values and CheckBox states change and whose
\* field reads raise.
FieldTypes == {"Edit", "CheckBox", "Button"}
FieldValues == {"", "7203"}
ToggleStates == {0, 1}
FieldReads == {"legacy_properties", "get_toggle_state"}

NextFields ==
  \/ \E h \in Nodes, v \in FieldTypes : SetControlType(h, v)
  \/ \E h \in Nodes, v \in FieldValues : SetValue(h, v)
  \/ \E h \in Nodes, s \in ToggleStates : SetToggleState(h, s)
  \/ \E h \in Nodes, r \in FieldReads : StaleField(h, r)
  \/ MapWindowElements

SpecFields == InitWalk /\ [][NextFields]_vars

\* An inspector scans screens, under one name or another, while the
\* application renames its elements.
NextScreens ==
  \/ \E h \in Nodes, v \in Names : SetName(h, v)
  \/ \E n \in ScreenNames : ScanCurrentScreen(n)

SpecScreens == InitScreens /\ [][NextScreens]_vars

\* The windows of the mapper's runs: large ones, one too small to be found, one
\* that cannot be connected to.
ExportWindowKinds ==
  {<<"Main", <<800, 600>>, {}>>, <<"Orders", <<800, 600>>, {}>>,
   <<"Main", <<50, 50>>, {}>>, <<"Orders", <<800, 600>>, {"connect"}>>}

ExportTypes == {"TabItem", "ComboBox", "MenuItem", "Tab"}
\* The elements that change type: the pane and the checkbox.
Retyped == {3, 5}

\* The exports.  The application retypes elements, the file system changes
\* and windows open; then an inspector scans screens, each name once, and
\* exports, or a mapper runs.
NextExport ==
  \/ \E h \in Retyped, v \in ExportTypes :
       clock = 0 /\ op = "" /\ SetControlType(h, v)
  \/ \E d \in OtherDirs : clock = 0 /\ MakeDir(d)
  \/ \E p \in OtherFiles : clock = 0 /\ CreateFile(p)
  \/ \E p \in Protected : clock = 0 /\ Protect(p)
  \/ \E n \in ScreenNames :
       /\ op \in {"", "scan_current_screen"} /\ n \notin DOMAIN inspector_elements
       /\ desktop = <<>>
       /\ ScanCurrentScreen(n)
  \/ \E path \in OutputPaths :
       /\ op \in {"", "scan_current_screen"}
       /\ desktop = <<>>
       /\ ExportToYaml(path)
  \/ \E k \in ExportWindowKinds :
       /\ clock = 0 /\ op = "" /\ edits + Len(desktop) < MaxEdits
       /\ OpenWindow(k)
  \/ \E path \in OutputPaths : op = "" /\ Run(path)

InitExport ==
  /\ elem = mock_window(ShapeBush)
  /\ max_depth = MaxDepth
  /\ InitWalker /\ InitNoDesktop
  /\ inspector_window = [element |-> Root]
  /\ inspector_elements = <<>> /\ last_scan = None /\ scan_world = <<>> /\ clock = 0
  /\ InitFiles /\ InitCommand

SpecExport == InitExport /\ [][NextExport]_vars

\* The windows an inspector connects to: two titles, and a window whose title
\* cannot be read.
ConnectWindowKinds ==
  {<<"Main", <<800, 600>>, {}>>, <<"Orders", <<800, 600>>, {}>>,
   <<"Orders", <<800, 600>>, {"window_text"}>>}

\* An inspector, with or without a window_title, on a platform whose
\* desktop.window or desktop.windows may raise.
InitConnect ==
  /\ elem = mock_window(ShapeBush)
  /\ max_depth = MaxDepth
  /\ InitWalker
  /\ desktop = <<>>
  /\ enum_raises \in SUBSET {"all", "window"}
  /\ title_pattern \in Patterns
  /\ windows_info = NotRun
  /\ InitInspector /\ InitFiles /\ InitCommand

\* Windows open and close while connect is called, with a pattern or without.
NextConnect ==
  \/ \E k \in ConnectWindowKinds : OpenWindow(k)
  \/ CloseWindow
  \/ \E p \in Patterns : Connect(p)

SpecConnect == InitConnect /\ [][NextConnect]_vars

\* A command line: windows open and the file system changes, then one command
\* runs in a new process, inspect (with its interactive session when --export
\* is not given) or map.
\* The files that cannot be written and the lines typed in the sessions of
\* these command lines.
CliProtected == {<<"out">>, DefaultExport}
CliCommands == {<<"quit">>, <<"scan">>, <<"scan", "order">>, <<"export">>, <<"tree">>}

InitCli ==
  /\ elem = mock_window(ShapeBush)
  /\ max_depth = MaxDepth
  /\ InitWalker
  /\ desktop = <<>>
  /\ enum_raises \in SUBSET {"all", "filtered", "window"}
  /\ title_pattern \in Patterns
  /\ windows_info = NotRun
  /\ InitInspector /\ InitFiles /\ InitCommand

NextCli ==
  \/ \E k \in ExportWindowKinds :
       /\ op = "" /\ edits + Len(desktop) < MaxEdits
       /\ OpenWindow(k)
  \/ \E d \in OtherDirs : MakeDir(d)
  \/ \E p \in CliProtected : Protect(p)
  \/ \E screen \in ScreenNames, output \in OutputPaths : CmdInspect(TRUE, screen, output)
  \/ CmdInspect(FALSE, "main", None)
  \/ \E export \in OutputPaths : CmdMap(export)
  \/ \E parts \in CliCommands : InteractiveCommand(parts)
  \/ InputEnds

SpecCli == InitCli /\ [][NextCli]_vars

\* An interactive session: `inspect --title Order.*` connects to the one
\* window titled Orders and prompts; lines are typed while the application
\* renames a button, and the default export file may be unwritable.
Renamed == {2}

InitSession ==
  /\ elem = mock_window(ShapeBush)
  /\ max_depth = MaxDepth
  /\ InitWalker
  /\ desktop = <<mock_top_window("Orders", <<800, 600>>, {}, 1)>>
  /\ enum_raises = {}
  /\ title_pattern = "Order.*"
  /\ windows_info = NotRun
  /\ InitInspector /\ InitFiles /\ InitCommand

NextSession ==
  \/ Protect(DefaultExport)
  \/ CmdInspect(FALSE, "main", None)
  \/ \E h \in Renamed, v \in Names : SetName(h, v)
  \/ \E parts \in Commands : InteractiveCommand(parts)
  \/ InputEnds

SpecSession == InitSession /\ [][NextSession]_vars

\* ------------------------------------------- positions in the platform tree

\* A position is the list of child indices leading from the root to an
\* occurrence of an element; its length is the depth of the occurrence.  The
\* lexicographic order of positions is the pre-order of the occurrences.
Front(s) == SubSeq(s, 1, Len(s) - 1)
Last(s) == s[Len(s)]

RECURSIVE Positions(_, _, _)
Positions(W, h, d) ==
  {<<>>} \cup
  (IF d = 0 THEN {}
   ELSE UNION { {<<i>> \o q : q \in Positions(W, W[h].children[i], d - 1)} :
                i \in 1 .. Len(W[h].children) })

RECURSIVE HandleAt(_, _, _)
HandleAt(W, h, p) ==
  IF p = <<>> THEN h ELSE HandleAt(W, W[h].children[Head(p)], Tail(p))

\* The positions within the depth limit.
AllPositions == Positions(elem, Root, max_depth)
Handle(p) == HandleAt(elem, Root, p)

MetaRaises(h) == "element_info" \in elem[h].raises
RectRaises(h) == "rectangle" \in elem[h].raises

\* The children of h that its enumeration yields before it raises, if it does.
YieldedCount(h) ==
  IF elem[h].children_raise_at = NoRaise THEN Len(elem[h].children)
  ELSE Min(elem[h].children_raise_at, Len(elem[h].children))

\* A position is reached by a walk when every element above it was readable
\* and yielded the child on the way to it.
Reached(p) ==
  \A n \in 0 .. Len(p) - 1 :
    /\ ~MetaRaises(Handle(SubSeq(p, 1, n)))
    /\ p[n + 1] <= YieldedCount(Handle(SubSeq(p, 1, n)))

ReachedPositions == {p \in AllPositions : Reached(p)}

\* The node of a scanned tree at a position.
RECURSIVE HasResultAt(_, _)
HasResultAt(t, p) ==
  \/ p = <<>>
  \/ /\ "children" \in DOMAIN t
     /\ Head(p) <= Len(t.children)
     /\ HasResultAt(t.children[Head(p)], Tail(p))

RECURSIVE ResultAt(_, _)
ResultAt(t, p) == IF p = <<>> THEN t ELSE ResultAt(t.children[Head(p)], Tail(p))

\* All the positions of a scanned tree.
RECURSIVE ResultPositions(_)
ResultPositions(t) ==
  {<<>>} \cup
  (IF "children" \in DOMAIN t
   THEN UNION { {<<i>> \o q : q \in ResultPositions(t.children[i])} :
                i \in 1 .. Len(t.children) }
   ELSE {})

Scanned == HasRun(scanned)
Mapped == HasRun(mapped)

\* ------------------------------------------------------------------ claims

\* C1: in a world where every element is readable, every node of the tree
\* scan_element returns has depth <= max_depth, and every node at depth
\* max_depth has an empty children list.
C1_DepthBound ==
  (Scanned /\ max_depth >= 0) =>
    /\ ~scanned.raised
    /\ \A p \in ResultPositions(scanned.value) :
         LET node == ResultAt(scanned.value, p)
         IN  /\ node.depth <= max_depth
             /\ node.depth = Len(p)
             /\ node.depth = max_depth => node.children = <<>>

\* A node at depth max_depth >= 1 whose element has children was scanned and
\* has no children in the result.
C1_Witness ==
  /\ pc = "scanned" /\ max_depth >= 1
  /\ \E p \in ResultPositions(scanned.value) :
       /\ Len(p) = max_depth
       /\ elem[Handle(p)].children # <<>>
       /\ ResultAt(scanned.value, p).children = <<>>

\* The record an unreadable element is reported as.
ErrorRecord(p) == [error |-> ExcMsg(Handle(p)), depth |-> Len(p)]

\* C3: a reached element whose metadata read raises is reported as exactly
\* {error: message, depth: its depth}, so with no children key and nothing
\* below it, and it stands in its parent's children list at its own index,
\* the parent holding one entry for each child its enumeration yielded.
C3_ErrorNode ==
  Scanned =>
    \A p \in ReachedPositions :
      MetaRaises(Handle(p)) =>
        /\ HasResultAt(scanned.value, p)
        /\ ResultAt(scanned.value, p) = ErrorRecord(p)
        /\ DOMAIN ResultAt(scanned.value, p) = {"error", "depth"}
        /\ \A q \in ResultPositions(scanned.value) :
             Len(q) > Len(p) => SubSeq(q, 1, Len(p)) # p
        /\ p # <<>> =>
             LET parent == ResultAt(scanned.value, Front(p))
             IN  /\ Len(parent.children) = YieldedCount(Handle(Front(p)))
                 /\ parent.children[Last(p)] = ErrorRecord(p)

\* An unreadable element with children of its own, scanned between two
\* siblings below the depth limit.
C3_Witness ==
  /\ pc = "scanned"
  /\ \E p \in ReachedPositions :
       /\ p # <<>> /\ Len(p) < max_depth
       /\ MetaRaises(Handle(p))
       /\ elem[Handle(p)].children # <<>>
       /\ Last(p) > 1 /\ Last(p) < YieldedCount(Handle(Front(p)))
       /\ ResultAt(scanned.value, p) = ErrorRecord(p)

\* C4: a reached element is reported as an error node exactly when its
\* metadata read raises.  A readable element whose rectangle read raises is a
\* normal node with rectangle None, and a readable element's children list
\* holds, in order, the scans of the children its enumeration yielded before
\* it raised (all of them when it does not raise, none at the depth limit).
C4_OnlyMetadataFails ==
  Scanned =>
    \A p \in ReachedPositions :
      /\ HasResultAt(scanned.value, p)
      /\ LET node == ResultAt(scanned.value, p)
             h == Handle(p)
         IN  /\ ("error" \in DOMAIN node) <=> MetaRaises(h)
             /\ ~MetaRaises(h) =>
                  /\ node.rectangle = (IF RectRaises(h) THEN None ELSE elem[h].rect)
                  /\ node.name = OrEmpty(elem[h].name)
                  /\ Len(node.children) = (IF Len(p) < max_depth THEN YieldedCount(h) ELSE 0)
                  /\ \A i \in 1 .. Len(node.children) :
                       node.children[i] =
                         scan_element(elem, elem[h].children[i], Len(p) + 1, node.path).value

\* One walk met an element whose rectangle read raised and whose children it
\* scanned, and an element whose enumeration raised after some but not all of
\* its children.
C4_Witness ==
  /\ pc = "scanned"
  /\ \E p \in ReachedPositions :
       /\ ~MetaRaises(Handle(p)) /\ RectRaises(Handle(p))
       /\ ResultAt(scanned.value, p).rectangle = None
       /\ ResultAt(scanned.value, p).children # <<>>
  /\ \E p \in ReachedPositions :
       /\ ~MetaRaises(Handle(p)) /\ Len(p) < max_depth
       /\ elem[Handle(p)].children_raise_at \in 1 .. Len(elem[Handle(p)].children) - 1
       /\ Len(ResultAt(scanned.value, p).children) = elem[Handle(p)].children_raise_at

\* A text attribute of the platform with None read as empty.
Text(x) == IF x = NoneText THEN "" ELSE x

\* The path segment the claim gives an element: its automation id if
\* non-empty, else its name if non-empty, else its control type.
Segment(h) ==
  IF Text(elem[h].automation_id) # "" THEN Text(elem[h].automation_id)
  ELSE IF Text(elem[h].name) # "" THEN Text(elem[h].name)
  ELSE Text(elem[h].control_type)

\* C5: the path of every scanned node is its segment alone when its parent's
\* path is empty (the root's parent path is empty), and the parent's path,
\* "/" and its segment otherwise.
C5_Path ==
  Scanned =>
    \A p \in ResultPositions(scanned.value) :
      LET node == ResultAt(scanned.value, p)
          parent_path == IF p = <<>> THEN "" ELSE ResultAt(scanned.value, Front(p)).path
      IN  node.path = (IF parent_path # "" THEN parent_path \o "/" \o Segment(Handle(p))
                       ELSE Segment(Handle(p)))

\* A path built over three levels from a name, a control type and a name,
\* beside a path whose last segment is an automation id chosen over a name.
C5_Witness ==
  /\ pc = "scanned"
  /\ \E p, q \in ResultPositions(scanned.value) :
       /\ ResultAt(scanned.value, p).path = "Main/Pane/Skip"
       /\ ResultAt(scanned.value, q).path = "Main/116"
       /\ elem[Handle(q)].name = "Buy"

\* A root whose own path is empty: its child's path is the child's segment.
EmptyRootPathReached ==
  /\ pc = "scanned"
  /\ scanned.value.path = ""
  /\ scanned.value.children # <<>>
  /\ scanned.value.children[1].path = "116"

\* p comes before q in pre-order: p is an ancestor of q, or at the first index
\* where they differ p takes the earlier sibling.
PreOrderLess(p, q) ==
  \E k \in 0 .. Min(Len(p), Len(q)) :
    /\ SubSeq(p, 1, k) = SubSeq(q, 1, k)
    /\ \/ k = Len(p) /\ k < Len(q)
       \/ k < Len(p) /\ k < Len(q) /\ p[k + 1] < q[k + 1]

\* The positions of a set, listed in pre-order.
RECURSIVE InPreOrder(_)
InPreOrder(S) ==
  IF S = {} THEN <<>>
  ELSE LET first == CHOOSE x \in S : \A y \in S \ {x} : PreOrderLess(x, y)
       IN  <<first>> \o InPreOrder(S \ {first})

\* The positions of the scanned tree whose node has the control type asked.
Matches ==
  {p \in ResultPositions(scanned.value) :
     LET node == ResultAt(scanned.value, p)
     IN  "control_type" \in DOMAIN node /\ node.control_type = query}

\* C7: find_elements_by_type returns, for the nodes of the scanned tree whose
\* control type is the one asked and for no other, the record {name,
\* automation_id, path, rectangle}, in pre-order; the empty list when there is
\* no such node.
C7_FindByType ==
  pc = "found" =>
    /\ ~found.raised
    /\ Len(found.value) = Cardinality(Matches)
    /\ \A i \in 1 .. Len(found.value) :
         LET node == ResultAt(scanned.value, InPreOrder(Matches)[i])
         IN  found.value[i] = [name |-> node.name, automation_id |-> node.automation_id,
                               path |-> node.path, rectangle |-> node.rectangle]

\* A search that found a node and a descendant of it, in that order, in a tree
\* that also holds a node of another type.
C7_Witness ==
  /\ pc = "found"
  /\ \E p, q \in Matches :
       /\ Len(p) < Len(q) /\ SubSeq(q, 1, Len(p)) = p
       /\ found.value[1].path = ResultAt(scanned.value, p).path
       /\ found.value[2].path = ResultAt(scanned.value, q).path
  /\ Matches # ResultPositions(scanned.value)

\* A search for a type no node has.
NoMatchReached == pc = "found" /\ Matches = {} /\ found.value = <<>>

\* The allow-list as the claim gives it.
ClaimedAllowList ==
  {"Button", "Edit", "CheckBox", "ComboBox", "List", "ListItem", "DataGrid",
   "DataItem", "Tab", "TabItem", "RadioButton", "Text", "Table", "TreeItem",
   "MenuItem"}

\* The inclusion filter of the flat mode, on the platform's attributes.
PassesFilter(h) ==
  /\ Text(elem[h].control_type) \in ClaimedAllowList
  /\ Text(elem[h].automation_id) # "" \/ Text(elem[h].name) # ""

\* The fields every flat record has.
Core(record) ==
  [depth |-> record.depth, type |-> record.type, id |-> record.id,
   name |-> record.name, class |-> record.class]

\* The fields of the flat record of the element at a position.
CoreAt(p) ==
  [depth |-> Len(p), type |-> Text(elem[Handle(p)].control_type),
   id |-> Text(elem[Handle(p)].automation_id), name |-> Text(elem[Handle(p)].name),
   class |-> Text(elem[Handle(p)].class_name)]

\* The reached positions whose element is readable and passes the filter.
Included == {p \in ReachedPositions : ~MetaRaises(Handle(p)) /\ PassesFilter(Handle(p))}

\* C9: the flat list holds a record for a readable element within the depth
\* limit exactly when its control type is in the allow-list and its
\* automation id or its name is non-empty.
C9_InclusionFilter ==
  Mapped =>
    /\ ~mapped.raised
    /\ \A p \in ReachedPositions :
         ~MetaRaises(Handle(p)) =>
           ((\E i \in 1 .. Len(mapped.value) : Core(mapped.value[i]) = CoreAt(p))
              <=> PassesFilter(Handle(p)))
    /\ \A i \in 1 .. Len(mapped.value) :
         /\ mapped.value[i].type \in ClaimedAllowList
         /\ mapped.value[i].id # "" \/ mapped.value[i].name # ""

\* A walk that met an allow-listed element with neither id nor name, left out,
\* and an allow-listed element with a name and no id, included.
C9_Witness ==
  /\ pc = "mapped"
  /\ \E p \in ReachedPositions :
       /\ Text(elem[Handle(p)].control_type) \in ClaimedAllowList
       /\ Text(elem[Handle(p)].automation_id) = "" /\ Text(elem[Handle(p)].name) = ""
       /\ \A i \in 1 .. Len(mapped.value) : Core(mapped.value[i]) # CoreAt(p)
  /\ \E p \in ReachedPositions :
       /\ Text(elem[Handle(p)].control_type) \in ClaimedAllowList
       /\ Text(elem[Handle(p)].automation_id) = "" /\ Text(elem[Handle(p)].name) # ""
       /\ \E i \in 1 .. Len(mapped.value) : Core(mapped.value[i]) = CoreAt(p)

\* C10: in a world where every element is readable, the flat list is the
\* pre-order list of the elements at depth <= max_depth that pass the filter,
\* each with its own depth, whether or not the elements above them pass.
C10_FlatPreOrder ==
  Mapped =>
    /\ ~mapped.raised
    /\ Len(mapped.value) = Cardinality(Included)
    /\ \A i \in 1 .. Len(mapped.value) :
         /\ Core(mapped.value[i]) = CoreAt(InPreOrder(Included)[i])
         /\ mapped.value[i].depth <= max_depth

\* A flat list holding an element below an element that does not pass the
\* filter, while an element deeper than max_depth that passes is left out.
C10_Witness ==
  /\ pc = "mapped"
  /\ \E p \in Included :
       /\ p # <<>> /\ ~PassesFilter(Handle(Front(p)))
       /\ \E i \in 1 .. Len(mapped.value) : Core(mapped.value[i]) = CoreAt(p)
  /\ \E q \in Positions(elem, Root, max_depth + 1) :
       Len(q) = max_depth + 1 /\ PassesFilter(Handle(q))

\* The windows the platform enumerated for find_windows.
Enumerated == all_windows(desktop, enum_raises, title_pattern)

\* The claim's condition on a window: its title is read and is non-empty, its
\* rectangle is read, and it is wider and higher than 100.
Retained(win) ==
  /\ "window_text" \notin win.raises /\ win.title # ""
  /\ "rectangle" \notin win.raises
  /\ win.width > 100 /\ win.height > 100

\* C8: when the platform enumerates windows, find_windows returns without
\* raising the descriptors of the enumerated windows that have a non-empty
\* title, a readable rectangle, width > 100 and height > 100, in the order of
\* the enumeration.
C8_WindowFilter ==
  (pc = "find_windows" /\ ~Enumerated.raised) =>
    /\ ~windows_info.raised
    /\ LET kept == SelectSeq(Enumerated.value, Retained)
       IN  /\ Len(windows_info.value) = Len(kept)
           /\ \A i \in 1 .. Len(kept) :
                windows_info.value[i] =
                  [title |-> kept[i].title, handle |-> kept[i].handle,
                   width |-> kept[i].width, height |-> kept[i].height]

\* A 100x100 window with a title was enumerated before a larger one: only the
\* second is returned.
C8_Witness ==
  /\ pc = "find_windows" /\ ~windows_info.raised
  /\ Len(desktop) = 2 /\ Len(Enumerated.value) = 2
  /\ desktop[1].title # "" /\ desktop[1].raises = {}
  /\ desktop[1].width = 100 /\ desktop[1].height = 100
  /\ Len(windows_info.value) = 1
  /\ windows_info.value[1].handle = 2 /\ windows_info.value[1].width = 101

\* Windows dropped for an empty title and for a rectangle read that raises.
SilentDropsReached ==
  /\ pc = "find_windows" /\ ~windows_info.raised
  /\ Len(Enumerated.value) = 2
  /\ desktop[1].title = "" /\ desktop[1].width = 800
  /\ "rectangle" \in desktop[2].raises
  /\ windows_info.value = <<>>

\* The platform with every read succeeding.
CleanWorld ==
  [h \in Nodes |-> [elem[h] EXCEPT !.raises = {}, !.children_raise_at = NoRaise]]

\* A read that the tree walk, or the flat walk, makes of element h raises.
FailsInTree(h) == MetaRaises(h) \/ RectRaises(h) \/ children_raises(elem, h)
FailsInFlat(h) ==
  \/ MetaRaises(h) \/ children_raises(elem, h)
  \/ Text(elem[h].control_type) = "Edit" /\ "legacy_properties" \in elem[h].raises
  \/ Text(elem[h].control_type) = "CheckBox" /\ "get_toggle_state" \in elem[h].raises

\* The positions outside every failing element's subtree.
OutsideTreeFailures ==
  {p \in AllPositions : \A n \in 0 .. Len(p) : ~FailsInTree(Handle(SubSeq(p, 1, n)))}
OutsideFlatFailures ==
  {p \in AllPositions : \A n \in 0 .. Len(p) : ~FailsInFlat(Handle(SubSeq(p, 1, n)))}

\* A node of a scanned tree without its children.
Own(node) == [node EXCEPT !.children = <<>>]

\* The place of position p in the pre-order list of the set S.
Rank(p, S) == Cardinality({q \in S : q = p \/ PreOrderLess(q, p)})

\* The positions the flat walk of the clean platform includes.
IncludedClean == {p \in AllPositions : PassesFilter(Handle(p))}

\* C2 (tree): scan_element returns without raising whatever reads raise, and
\* every element outside the failing elements' subtrees has in the result the
\* node, and the number of children, it has when nothing raises.
C2_TreeIsolation ==
  Scanned =>
    /\ ~scanned.raised
    /\ LET clean == scan_element(CleanWorld, Root, 0, "").value
       IN  \A p \in OutsideTreeFailures :
             /\ HasResultAt(scanned.value, p) /\ HasResultAt(clean, p)
             /\ Own(ResultAt(scanned.value, p)) = Own(ResultAt(clean, p))
             /\ Len(ResultAt(scanned.value, p).children) = Len(ResultAt(clean, p).children)

\* C2 (flat): map_window_elements returns without raising whatever reads
\* raise, its list holds one record for each included element it reached, and
\* every included element outside the failing elements' subtrees has, at its
\* pre-order place, the record it has when nothing raises.
C2_FlatIsolation ==
  Mapped =>
    /\ ~mapped.raised
    /\ Len(mapped.value) = Cardinality(Included)
    /\ LET clean == map_window_elements(CleanWorld, Root).value
       IN  /\ Len(clean) = Cardinality(IncludedClean)
           /\ \A p \in OutsideFlatFailures :
                PassesFilter(Handle(p)) =>
                  /\ mapped.value[Rank(p, Included)] = clean[Rank(p, IncludedClean)]
                  /\ Core(mapped.value[Rank(p, Included)]) = CoreAt(p)

\* C2: no failure of a read escapes either walk, and the elements outside the
\* failing elements' subtrees appear as they do when nothing fails.
C2_FaultIsolation == C2_TreeIsolation /\ C2_FlatIsolation

\* Both walks ran on a platform where the metadata read of one element raises
\* and the enumeration of another's children raises part-way, and an included
\* element that follows them in pre-order is outside their subtrees.
C2_Witness ==
  /\ Scanned /\ Mapped
  /\ \E a, b \in ReachedPositions :
       /\ a # b /\ MetaRaises(Handle(a))
       /\ children_raises(elem, Handle(b)) /\ YieldedCount(Handle(b)) < Len(elem[Handle(b)].children)
       /\ \E p \in OutsideFlatFailures \cap OutsideTreeFailures :
            /\ PreOrderLess(a, p) /\ PreOrderLess(b, p)
            /\ PassesFilter(Handle(p))
            /\ Rank(p, Included) < Rank(p, IncludedClean)

\* The number of nodes of a scanned tree.
RECURSIVE TreeSize(_)
RECURSIVE ForestSize(_)
ForestSize(nodes) ==
  IF nodes = <<>> THEN 0 ELSE TreeSize(Head(nodes)) + ForestSize(Tail(nodes))
TreeSize(node) == 1 + ForestSize(Get(node, "children", <<>>))

\* The most children any element lists, and the number of positions down to
\* depth d of a structure that branches that much.
Branching == CHOOSE n \in 0 .. Cardinality(Nodes) :
               /\ \A h \in Nodes : Len(elem[h].children) <= n
               /\ \E h \in Nodes : Len(elem[h].children) = n
RECURSIVE TreeBound(_)
TreeBound(d) == IF d = 0 THEN 1 ELSE 1 + Branching * TreeBound(d - 1)

\* Some element is reachable as its own descendant.
Cyclic == \E p \in AllPositions : \E n \in 0 .. Len(p) - 1 :
            Handle(SubSeq(p, 1, n)) = Handle(p)

\* C6: whatever the children relation, cyclic or not, the calls in progress
\* never nest deeper than max_depth + 2, a finished walk's result has no more
\* nodes (records) than a structure of that branching has down to max_depth,
\* and both the tree walk and the flat walk come to their end.
C6_Terminates ==
  /\ [](Len(stack) <= max_depth + 2)
  /\ [](Scanned => TreeSize(scanned.value) <= TreeBound(max_depth))
  /\ [](Mapped => Len(mapped.value) <= TreeBound(max_depth))
  /\ <>(Scanned /\ Mapped /\ stack = <<>>)

\* Both walks ended on the structure where the second element lists the root
\* and itself: the tree holds the root again below its first child, and the
\* flat list holds that child's record at depth 1 and again at depth 2.
C6_Witness ==
  /\ Scanned /\ Mapped /\ stack = <<>> /\ Cyclic
  /\ max_depth >= 2
  /\ <<1, 1>> \in AllPositions /\ Handle(<<1, 1>>) = Root
  /\ HasResultAt(scanned.value, <<1, 1>>)
  /\ ResultAt(scanned.value, <<1, 1>>).path = "Main/116/Main"
  /\ TreeSize(scanned.value) = TreeBound(max_depth)
  /\ \E i, j \in 1 .. Len(mapped.value) :
       /\ i < j /\ mapped.value[i].id = "116" /\ mapped.value[j].id = "116"
       /\ mapped.value[i].depth = 1 /\ mapped.value[j].depth = 2

\* The walks, call by call, return what scan_element and map_window_elements
\* return.
StepsAgree ==
  /\ pc \in {"scanned", "mapping", "mapped"} => scanned = scan_element(elem, Root, 0, "")
  /\ pc = "mapped" => mapped = map_window_elements(elem, Root)

\* The legacy value read, and the toggle-state read, of h succeeds.
ValueReadable(h) == "legacy_properties" \notin elem[h].raises
ToggleReadable(h) == "get_toggle_state" \notin elem[h].raises

\* C11: the record of an included element has `value` exactly when the element
\* is an Edit whose legacy value is read and is non-empty, and `checked`
\* exactly when it is a CheckBox whose toggle state is read, whatever the
\* state; it never has `error`; and an element that passes the filter has its
\* record whether or not these reads raise.
C11_OptionalFields ==
  Mapped =>
    /\ ~mapped.raised
    /\ Len(mapped.value) = Cardinality(Included)
    /\ \A i \in 1 .. Len(mapped.value) :
         LET record == mapped.value[i]
             h == Handle(InPreOrder(Included)[i])
         IN  /\ Core(record) = CoreAt(InPreOrder(Included)[i])
             /\ "value" \in DOMAIN record <=>
                  (Text(elem[h].control_type) = "Edit" /\ ValueReadable(h)
                     /\ elem[h].value # "")
             /\ "value" \in DOMAIN record => record.value = elem[h].value
             /\ "checked" \in DOMAIN record <=>
                  (Text(elem[h].control_type) = "CheckBox" /\ ToggleReadable(h))
             /\ "checked" \in DOMAIN record => record.checked = elem[h].toggle_state
             /\ "error" \notin DOMAIN record

\* The flat list holds the record of a CheckBox in state 0 with checked = 0,
\* and the record of an Edit with a non-empty value whose value read raises,
\* without `value`.
C11_Witness ==
  /\ Mapped /\ ~mapped.raised
  /\ \E i, j \in 1 .. Len(mapped.value) :
       LET hi == Handle(InPreOrder(Included)[i])
           hj == Handle(InPreOrder(Included)[j])
       IN  /\ mapped.value[i].type = "CheckBox" /\ ToggleReadable(hi)
           /\ elem[hi].toggle_state = 0
           /\ "checked" \in DOMAIN mapped.value[i] /\ mapped.value[i].checked = 0
           /\ mapped.value[j].type = "Edit" /\ ~ValueReadable(hj)
           /\ elem[hj].value # ""
           /\ DOMAIN mapped.value[j] = {"depth", "type", "id", "name", "class"}

\* A step is a call of scan_current_screen under the name n.
ScanOf(n) ==
  /\ clock' = clock + 1 /\ op' = "scan_current_screen"
  /\ returned'.value.screen_name = n

\* C14: every stored screen holds the result of the latest scan made under
\* its name (the tree of the platform as that scan met it, with the name and
\* the time of that scan), and a scan under one name leaves the result stored
\* under every other name as it was.
C14_ScanReplaces ==
  /\ [](/\ DOMAIN inspector_elements = DOMAIN scan_world
        /\ \A n \in DOMAIN inspector_elements :
             inspector_elements[n] =
               screen_result(scan_world[n].world, scan_world[n].window, n,
                             scan_world[n].at))
  /\ [][\A n \in ScreenNames : \A m \in DOMAIN inspector_elements :
          (ScanOf(n) /\ m # n) =>
            (m \in DOMAIN inspector_elements'
               /\ inspector_elements'[m] = inspector_elements[m])]_vars

\* "order" was scanned, then "main" twice with an element renamed in between:
\* "main" holds the tree of the third scan and "order" still that of the first,
\* which differs from what a scan would find now.
C14_Witness ==
  /\ clock = 3 /\ DOMAIN inspector_elements = {"main", "order"}
  /\ inspector_elements["order"].scanned_at = 0
  /\ inspector_elements["main"].scanned_at = 2
  /\ scan_world["order"].world # elem
  /\ inspector_elements["order"] # screen_result(elem, inspector_window, "order", 0)
  /\ inspector_elements["main"] = screen_result(elem, inspector_window, "main", 2)
  /\ "children" \in DOMAIN inspector_elements["main"]

\* The buckets the claim lists, with the control type each one tracks.
ClaimedBuckets ==
  [buttons |-> "Button", text_fields |-> "Edit", menu_items |-> "MenuItem",
   tabs |-> "TabItem", combo_boxes |-> "ComboBox"]

\* An export by the inspector has written its document.
Exported == op = "export_to_yaml" /\ ~returned.raised

\* C12: in the document read back from the file an export wrote, every stored
\* screen has the five buckets, empty or not, and each bucket has as many
\* entries as find_elements_by_type returns on the screen's stored tree for
\* the bucket's control type.
C12_GroupedExport ==
  Exported =>
    LET document == yaml_safe_load(files[returned.value])
    IN  /\ DOMAIN document.screens = DOMAIN inspector_elements
        /\ \A n \in DOMAIN inspector_elements :
             /\ DOMAIN document.screens[n].elements = DOMAIN ClaimedBuckets
             /\ \A b \in DOMAIN ClaimedBuckets :
                  Len(document.screens[n].elements[b]) =
                    Len(find_elements_by_type(inspector_elements[n],
                                              ClaimedBuckets[b], <<>>))

\* An export of two screens, scanned after an element became a TabItem and
\* another a Tab: "main" has one entry under tabs (the Tab is not counted), one
\* under buttons and none under menu_items.
C12_Witness ==
  /\ Exported
  /\ DOMAIN inspector_elements = {"main", "order"}
  /\ LET document == yaml_safe_load(files[returned.value])
     IN  /\ Len(document.screens["main"].elements["tabs"]) = 1
         /\ Len(document.screens["main"].elements["buttons"]) = 1
         /\ document.screens["main"].elements["menu_items"] = <<>>
         /\ \E h \in Nodes : elem[h].control_type = "Tab"

\* What is read back is what was dumped.
YamlRoundTrip ==
  Exported =>
    yaml_safe_load(files[returned.value]) = export_data(inspector_elements, clock - 1)

\* Nothing stands in the way of writing at path p: no component of it is
\* protected or is a file, and p is not a directory.
Unobstructed(p) ==
  /\ p \notin dirs
  /\ \A n \in 1 .. Len(p) :
       /\ SubSeq(p, 1, n) \notin unwritable
       /\ SubSeq(p, 1, n) \notin DOMAIN files \/ n = Len(p)

\* The windows run finds.
Found == find_windows(desktop, enum_raises, title_pattern)

\* A step is an export to p by the inspector, or by a mapper's run that found
\* windows.
YamlExportTo(p) == op # "export_to_yaml" /\ op' = "export_to_yaml" /\ arg' = p
JsonExportTo(p) ==
  /\ op # "run" /\ op' = "run" /\ arg' = p
  /\ ~Found.raised /\ Found.value # <<>>

\* C13 as claimed: an export of either tool to a path whose directory does not
\* exist, with nothing in the way, creates the directory and leaves the
\* document at the path.
C13_ParentsCreated ==
  [][\A p \in OutputPaths \ {None} :
       ((YamlExportTo(p) \/ JsonExportTo(p)) /\ Parent(p) \notin dirs /\ Unobstructed(p))
         => (Parent(p) \in dirs' /\ p \in DOMAIN files' /\ ~returned'.raised)]_vars

\* The inspector's half of C13: export_to_yaml creates the missing directories,
\* writes the document and returns the path.
C13_InspectorCreatesParents ==
  [][\A p \in OutputPaths \ {None} :
       (YamlExportTo(p) /\ Parent(p) \notin dirs /\ Unobstructed(p))
         => (/\ Parent(p) \in dirs' /\ Parent(Parent(p)) \in dirs'
             /\ p \in DOMAIN files' /\ returned' = Return(p))]_vars

\* A run that found a window was asked to export below a directory that does
\* not exist: nothing is written and no directory is made.
C13_RunWritesNothing ==
  /\ op = "run" /\ arg = <<"exports", "new", "out">>
  /\ ~returned.raised /\ DOMAIN returned.value # {}
  /\ unwritable = {} /\ DOMAIN files = {} /\ dirs = {<<>>}


\* The found windows run could connect to.
Connected == SelectSeq(Found.value, LAMBDA w : ~connect_raises(desktop, w.handle))

\* The last found and connected window with a title.
LastTitled(title) ==
  Connected[CHOOSE i \in 1 .. Len(Connected) :
              /\ Connected[i].title = title
              /\ \A j \in (i + 1) .. Len(Connected) : Connected[j].title # title]

\* The write of the last run, had it an export path, failed.
WriteFailed == arg # None /\ open_raises(dirs, files, unwritable, arg)

\* A run that found windows returns the complete mappings, whatever became of
\* the write: one entry for each title of a connected window, with that
\* window's size and the records of its elements.
RunReturnsMappings ==
  (op = "run" /\ ~Found.raised /\ Found.value # <<>>) =>
    /\ ~returned.raised
    /\ DOMAIN returned.value = {Connected[i].title : i \in 1 .. Len(Connected)}
    /\ \A title \in DOMAIN returned.value :
         LET win == LastTitled(title)
         IN  /\ returned.value[title].size = size_text(win.width, win.height)
             /\ returned.value[title].elements
                  = map_window_elements(elem, window_root(win.handle)).value

\* C15: an export leaves the stored screens as they were, whether the write
\* succeeds or raises, and a run whose export write fails still returns the
\* complete mappings it built.
C15_ExportKeepsData ==
  /\ [][(op # "export_to_yaml" /\ op' = "export_to_yaml")
          => inspector_elements' = inspector_elements]_vars
  /\ []RunReturnsMappings

\* A run mapped two windows and could not write the export: the path is
\* protected.
C15_Witness ==
  /\ op = "run" /\ WriteFailed /\ arg \in unwritable
  /\ ~returned.raised
  /\ {"Main", "Orders"} \subseteq DOMAIN returned.value
  /\ returned.value["Main"].elements # <<>>

\* An export of two stored screens raised and the screens are still there.
C15_FailedYamlExport ==
  /\ op = "export_to_yaml" /\ returned.raised
  /\ DOMAIN inspector_elements = ScreenNames
  /\ \A n \in ScreenNames : inspector_elements[n].children # <<>>

\* C20: when find_windows yields no window, run returns an empty mapping and
\* writes nothing, export path or not.
C20_NoWindowsNoExport ==
  [][(op # "run" /\ op' = "run" /\ ~Found.raised /\ Found.value = <<>>)
       => (returned' = Return(EmptyDict) /\ files' = files /\ dirs' = dirs)]_vars

\* A run with an export path that could have been written found no window
\* (the only one is too small), returned {} and left no file.
C20_Witness ==
  /\ op = "run" /\ arg # None /\ ~WriteFailed
  /\ desktop # <<>> /\ ~Found.raised /\ Found.value = <<>>
  /\ returned = Return(EmptyDict)
  /\ arg \notin DOMAIN files


\* The descriptor find_windows keeps of a window.
Descriptor(win) ==
  [title |-> win.title, handle |-> win.handle, width |-> win.width, height |-> win.height]

\* find_windows returned the descriptors of the windows of ws, in order.
ReturnedWindows(ws) ==
  /\ ~windows_info.raised
  /\ Len(windows_info.value) = Len(ws)
  /\ \A i \in 1 .. Len(ws) : windows_info.value[i] = Descriptor(ws[i])

\* The title matches the mapper's pattern as a regular expression.
MatchesPattern(win) == title_re_matches(title_pattern, win.title)

\* C19: with a title pattern, find_windows returns the retained windows among
\* those the platform matches against the pattern; when that filtered
\* enumeration raises and the unfiltered one returns, it returns the retained
\* windows among all of them, matching the pattern or not.
C19_FilteredThenFallback ==
  (pc = "find_windows" /\ title_pattern # "") =>
    /\ "filtered" \notin enum_raises =>
         ReturnedWindows(SelectSeq(desktop, LAMBDA w : MatchesPattern(w) /\ Retained(w)))
    /\ ("filtered" \in enum_raises /\ "all" \notin enum_raises) =>
         ReturnedWindows(SelectSeq(desktop, Retained))

\* The filtered enumeration raised and a window whose title does not match
\* the pattern was returned after one that does.
C19_Witness ==
  /\ pc = "find_windows" /\ title_pattern = "Order.*"
  /\ "filtered" \in enum_raises /\ "all" \notin enum_raises
  /\ ~windows_info.raised /\ Len(windows_info.value) = 2
  /\ windows_info.value[1].title = "Orders"
  /\ windows_info.value[2].title = "Main"

\* With the filtered enumeration working, the window that does not match is
\* left out.
C19_FilterApplied ==
  /\ pc = "find_windows" /\ title_pattern = "Order.*" /\ enum_raises = {}
  /\ Len(desktop) = 2 /\ desktop[1].title = "Main" /\ Retained(desktop[1])
  /\ ~windows_info.raised /\ Len(windows_info.value) = 1
  /\ windows_info.value[1].title = "Orders"


\* The pattern a connect step uses: its argument or else the window_title.
UsedPattern == IF arg' # NoPattern THEN arg' ELSE title_pattern

ConnectStep == op' = "connect" /\ clock' = clock + 1

\* inspector.window holds a resolved window.
HoldsWindow(win) == win # None /\ "element" \in DOMAIN win

\* C16 as claimed: connect with a pattern returns True with the resolved
\* window stored, or returns False and leaves inspector.window as it was;
\* without a pattern it returns False and leaves inspector.window as it was.
C16_NoPartialConnect ==
  [][ConnectStep =>
       IF UsedPattern # NoPattern
       THEN \/ returned' = Return(TRUE) /\ HoldsWindow(inspector_window')
            \/ returned' = Return(FALSE) /\ inspector_window' = inspector_window
       ELSE returned' = Return(FALSE) /\ inspector_window' = inspector_window]_vars

\* What does hold of connect with a pattern: it does not raise, and it returns
\* True exactly when one window matches and its title is read; when
\* desktop.window itself raises, inspector.window is left as it was.
C16_ConnectReturnsBoolean ==
  [][(ConnectStep /\ UsedPattern # NoPattern) =>
       /\ returned' \in {Return(TRUE), Return(FALSE)}
       /\ returned' = Return(TRUE) =>
            /\ HoldsWindow(inspector_window')
            /\ title_re_matches(UsedPattern, desktop[inspector_window'.handle].title)
            /\ "window_text" \notin desktop[inspector_window'.handle].raises
       /\ "window" \in enum_raises => inspector_window' = inspector_window]_vars

\* connect returned False and inspector.window, None before any connect, now
\* holds the criteria that resolved to no window.
C16_FailedConnectStoredWindow ==
  /\ op = "connect" /\ clock = 1
  /\ returned = Return(FALSE)
  /\ inspector_window # None /\ "title_re" \in DOMAIN inspector_window

\* connect without a pattern raised: listing the windows did.
C16_ConnectRaised ==
  /\ op = "connect" /\ arg = NoPattern /\ title_pattern = NoPattern
  /\ returned.raised


\* connect of the new inspector of cmd_inspect returns True.
Connects ==
  LET connected == connect(desktop, enum_raises, title_pattern, NoPattern, None)
  IN  ~connected.returned.raised /\ connected.returned.value = TRUE

\* The path export_to_yaml writes for --output.
WrittenPath(output) == IF output = None THEN DefaultExport ELSE output

\* What cmd_inspect calls: connect alone when it fails; on success scan and
\* then export with --export, and the interactive session without.
InspectCalls ==
  calls = IF ~Connects THEN <<"connect">>
          ELSE IF arg.export THEN <<"connect", "scan_current_screen", "export_to_yaml">>
          ELSE <<"connect", "interactive_mode">>

\* C17 as claimed: the exit status of inspect is 1 exactly when connect fails
\* and 0 otherwise, with the calls above.
C17_ExitOnlyOnConnect ==
  (op = "cmd_inspect" /\ HasRun(exit_status)) =>
    /\ exit_status = Exited(1) <=> ~Connects
    /\ exit_status = Exited(0) <=> Connects
    /\ InspectCalls

\* C17, amended: when connect fails the exit status is 1 and nothing is
\* scanned, exported or asked; when it succeeds --export selects scan then
\* export and its absence the interactive session, and the exit status is 0
\* when these return: with --export exactly when the document of the scanned
\* screen is at the output path, in a session unless its export raised.
C17_InspectDispatch ==
  op = "cmd_inspect" =>
    /\ InspectCalls
    /\ ~Connects =>
         /\ exit_status = Exited(1)
         /\ inspector_elements = EmptyDict /\ last_scan = None /\ files = <<>>
    /\ (Connects /\ arg.export) =>
         /\ DOMAIN inspector_elements = {arg.screen}
         /\ exit_status \in {Exited(0), Exited(1)}
         /\ exit_status = Exited(0) <=> WrittenPath(arg.output) \in DOMAIN files
         /\ exit_status = Exited(0) =>
              DOMAIN yaml_safe_load(files[WrittenPath(arg.output)]).screens = {arg.screen}
    /\ (Connects /\ ~arg.export) =>
         /\ exit_status \in {NotRun, Exited(0), Exited(1)}
         /\ exit_status = Exited(1) =>
              (Truthy(inspector_elements) /\ DefaultExport \notin DOMAIN files)

\* inspect --export connected, scanned "order" and exported it below
\* directories that did not exist; the status is 0.
C17_Witness ==
  /\ op = "cmd_inspect" /\ Connects /\ arg.export /\ arg.screen = "order"
  /\ arg.output = <<"exports", "new", "out">>
  /\ exit_status = Exited(0)
  /\ calls = <<"connect", "scan_current_screen", "export_to_yaml">>
  /\ <<"exports", "new", "out">> \in DOMAIN files

\* inspect could not connect: status 1 after the one call.
C17_ConnectFailed ==
  /\ op = "cmd_inspect" /\ ~Connects /\ title_pattern # NoPattern /\ desktop # <<>>
  /\ exit_status = Exited(1) /\ calls = <<"connect">>

\* inspect --export connected and the export raised: the status is 1.
C17_ExportRaised ==
  /\ op = "cmd_inspect" /\ Connects /\ arg.export
  /\ returned.raised /\ exit_status = Exited(1)

\* A session ended by quit or by the end of the input, after a scan.
C17_SessionEnded ==
  /\ op = "cmd_inspect" /\ ~arg.export /\ exit_status = Exited(0)
  /\ last_scan # None

\* C18 as claimed: the exit status of map is 1 when no window matching the
\* pattern is found and 0 when windows are found.
C18_MapExitStatus ==
  (op = "cmd_map" /\ ~Found.raised) =>
    /\ Found.value = <<>> => exit_status = Exited(1)
    /\ Found.value # <<>> => exit_status = Exited(0)

\* What holds: map exits with 0 whenever run returns, windows or not.
C18_MapExitsZero ==
  (op = "cmd_map" /\ ~Found.raised) => (exit_status = Exited(0) /\ returned = Return(0))

\* map --title Order.* found no window, wrote nothing and exited with 0.
C18_NoWindowExitZero ==
  /\ op = "cmd_map" /\ title_pattern = "Order.*" /\ enum_raises = {}
  /\ Found = Return(<<>>)
  /\ exit_status = Exited(0) /\ files = <<>>


\* q lies below p.
Below(p, q) == Len(p) < Len(q) /\ SubSeq(q, 1, Len(p)) = p

\* C21: whatever reads raise, the flat list is the pre-order list of the
\* records of the included elements that were reached: an element whose
\* metadata read raises leaves no record, error marker or other, and nothing
\* below it is visited, while what was collected before it and what follows
\* it stays; an element whose children enumeration raises keeps its own
\* record and those collected from the children yielded before.
C21_FlatFailures ==
  Mapped =>
    /\ ~mapped.raised
    /\ Len(mapped.value) = Cardinality(Included)
    /\ \A i \in 1 .. Len(mapped.value) :
         /\ Core(mapped.value[i]) = CoreAt(InPreOrder(Included)[i])
         /\ "error" \notin DOMAIN mapped.value[i]
    /\ \A p \in AllPositions :
         (Reached(p) /\ MetaRaises(Handle(p))) =>
           \A q \in AllPositions : (q = p \/ Below(p, q)) => q \notin Included

\* The metadata read of an element raised: an element below it that passes
\* the filter has no record, and the list holds a record collected before it
\* and one collected after it.
C21_Witness ==
  /\ pc = "mapped"
  /\ \E p \in ReachedPositions :
       /\ MetaRaises(Handle(p))
       /\ \E q \in AllPositions : Below(p, q) /\ PassesFilter(Handle(q))
       /\ \E a, b \in Included : PreOrderLess(a, p) /\ PreOrderLess(p, b)
  /\ Len(mapped.value) = Cardinality(Included)

\* The positions below p that pass the filter and lie under a child that the
\* enumeration of p's children did not yield.
Unyielded(p) ==
  {r \in AllPositions : /\ Below(p, r) /\ r[Len(p) + 1] > YieldedCount(Handle(p))
                         /\ PassesFilter(Handle(r))}

PartlyEnumerated(p) ==
  elem[Handle(p)].children_raise_at \in 1 .. Len(elem[Handle(p)].children) - 1

\* The enumeration of the children of two elements raised after some of
\* them.  One is included: its own record is kept.  Below the other a record
\* was collected from a child yielded before.  Elements that pass the filter
\* under the children not yielded have no record.
C21_ChildrenFailure ==
  /\ pc = "mapped"
  /\ \E p \in Included : PartlyEnumerated(p) /\ Unyielded(p) # {}
  /\ \E p \in ReachedPositions :
       /\ PartlyEnumerated(p) /\ Unyielded(p) # {}
       /\ \E q \in Included : Below(p, q)
  /\ Len(mapped.value) = Cardinality(Included)

\* The i-th found window was connected to and mapped, and no later found
\* window with its title was.
LastSuccess(i) ==
  /\ ~connect_raises(desktop, Found.value[i].handle)
  /\ \A j \in (i + 1) .. Len(Found.value) :
       Found.value[j].title = Found.value[i].title
         => connect_raises(desktop, Found.value[j].handle)

\* The found windows up to the i-th that were connected to.
SuccessesUpTo(i) ==
  Cardinality({j \in 1 .. i : ~connect_raises(desktop, Found.value[j].handle)})

\* C22: run returns one entry for each title of a found window whose
\* connect-and-map step succeeded, holding the data of the last such window
\* with that title; a window whose step raises is left out and the windows
\* after it are still mapped, so there are at most as many entries as found
\* windows.
C22_LastWindowWins ==
  (op = "run" /\ ~Found.raised /\ Found.value # <<>>) =>
    /\ ~returned.raised
    /\ \A t \in DOMAIN returned.value :
         \E i \in 1 .. Len(Found.value) : Found.value[i].title = t /\ LastSuccess(i)
    /\ \A i \in 1 .. Len(Found.value) :
         LastSuccess(i) =>
           /\ Found.value[i].title \in DOMAIN returned.value
           /\ returned.value[Found.value[i].title] =
                [size |-> size_text(Found.value[i].width, Found.value[i].height),
                 elements |-> map_window_elements(elem, window_root(Found.value[i].handle)).value,
                 mapped_at |-> clock - SuccessesUpTo(Len(Found.value)) + SuccessesUpTo(i) - 1]
    /\ Cardinality(DOMAIN returned.value) <= Len(Found.value)

\* Two windows titled Main were found and mapped: the one entry holds the
\* elements of the second, which differ from those of the first.
C22_Witness ==
  /\ op = "run" /\ ~Found.raised /\ Len(Found.value) = 2
  /\ Found.value[1].title = "Main" /\ Found.value[2].title = "Main"
  /\ LastSuccess(2) /\ ~connect_raises(desktop, Found.value[1].handle)
  /\ DOMAIN returned.value = {"Main"}
  /\ returned.value["Main"].elements
       # map_window_elements(elem, window_root(Found.value[1].handle)).value
  /\ returned.value["Main"].mapped_at = 1

\* The connect of the first found window raised and the second was mapped.
C22_FailureSkipped ==
  /\ op = "run" /\ ~Found.raised /\ Len(Found.value) = 2
  /\ connect_raises(desktop, Found.value[1].handle)
  /\ DOMAIN returned.value = {Found.value[2].title}

\* Of two windows titled Orders the connect of the second raised: the entry is
\* that of the first.
C22_EarlierKept ==
  /\ op = "run" /\ ~Found.raised /\ Len(Found.value) = 2
  /\ Found.value[1].title = "Orders" /\ Found.value[2].title = "Orders"
  /\ connect_raises(desktop, Found.value[2].handle)
  /\ DOMAIN returned.value = {"Orders"}
  /\ returned.value["Orders"].mapped_at = 0


\* An interactive session has started (it may have ended).
SessionStarted ==
  op = "cmd_inspect" /\ calls = <<"connect", "interactive_mode">>

\* The screen name of the most recent scan.
LatestScanned ==
  CHOOSE n \in DOMAIN scan_world :
    \A m \in DOMAIN scan_world : scan_world[m].at <= scan_world[n].at

\* The word is the decimal numeral of an integer.
IsNumeral(word) == \E n \in DepthArgs : ToString(n) = word

\* The screen name a scan line gives.
ScanName(parts) == IF Len(parts) > 1 THEN parts[2] ELSE "main"

\* C23: in a session on a new inspector last_scan is unset exactly when no
\* screen is stored and is otherwise the stored result of the most recent
\* scan; a scan line sets it to the result it stores; tree, summary and
\* export typed before any scan change nothing and write no file; a depth
\* line without an integer leaves max_depth as it was.
C23_Session ==
  /\ [](SessionStarted =>
          /\ last_scan = None <=> inspector_elements = EmptyDict
          /\ DOMAIN scan_world = DOMAIN inspector_elements
          /\ last_scan # None => last_scan = inspector_elements[LatestScanned])
  /\ [][\A parts \in Commands \ {<<>>} :
          InteractiveCommand(parts) =>
            /\ parts[1] = "scan" =>
                 /\ last_scan' = screen_result(elem, inspector_window, ScanName(parts), clock)
                 /\ inspector_elements'[ScanName(parts)] = last_scan'
            /\ (parts[1] \in {"tree", "summary", "export"} /\ last_scan = None) =>
                 UNCHANGED vars
            /\ (parts[1] = "depth" /\ (Len(parts) = 1 \/ ~IsNumeral(parts[2]))) =>
                 max_depth' = max_depth]_vars

\* After scans of "main" and, with a renamed button, of "order", `depth x`
\* was typed: last_scan is the stored "order" screen, which differs from
\* "main", and max_depth is what it was at the start.
C23_Witness ==
  /\ SessionStarted /\ ~HasRun(returned)
  /\ DOMAIN inspector_elements = {"main", "order"}
  /\ scan_world["main"].at < scan_world["order"].at
  /\ scan_world["main"].world # scan_world["order"].world
  /\ last_scan = inspector_elements["order"]
  /\ last_scan.children # inspector_elements["main"].children
  /\ max_depth = MaxDepth

\* `depth 1` was typed between two scans of the same screen: the stored
\* screen and last_scan are the later, shallower scan.
C23_Rescanned ==
  /\ SessionStarted /\ max_depth = 1 /\ clock = 2
  /\ DOMAIN inspector_elements = {"main"}
  /\ last_scan = inspector_elements["main"]
  /\ last_scan.scanned_at = 1

\* An export typed after a scan wrote the default file.
C23_SessionExported ==
  /\ SessionStarted /\ last_scan # None
  /\ DefaultExport \in DOMAIN files

====
